---- MODULE Spec2Model ----
(***************************************************************************)
(* autofram: the Watcher (src/autofram/watcher.py) supervising Runner      *)
(* processes (src/autofram/runner.py) that can replace their own image     *)
(* through the bootstrap / rollback tools (src/autofram/tools.py).         *)
(*                                                                         *)
(* Time is the host clock in seconds.  The Watcher is the only timed       *)
(* process: one monitor_iteration, with every sleep it performs, is one    *)
(* step that moves the clock; Runner steps happen between iterations.      *)
(* The specifications share the actions: Spec (the Watcher beside a        *)
(* Runner that upgrades itself), SpecRunner (a Runner's cycles and tools), *)
(* SpecBudget (the Watcher through a crash window of an hour), SpecCycle   *)
(* (a Runner's run loop, where the clock follows the Runner's sleeps),     *)
(* SpecHealth (the Watcher's health checks and terminations), SpecSync     *)
(* (the Watcher beside a Runner that writes COMMS.md), SpecLoop (the       *)
(* tool-call sub-loop), SpecContracts (the execute_contracts tool),        *)
(* SpecLogs (the Watcher over the bootstrap.log it finds), SpecInterval    *)
(* (a Runner's sleeps at every minute of the hour and several work         *)
(* intervals) and SpecWindow (the Watcher past its crash window).          *)
(* Strings are sequences of tokens (path components, words); a substring   *)
(* test is a token membership test.                                        *)
(***************************************************************************)
EXTENDS Integers, Sequences, FiniteSets, TLC

VARIABLES
    now,             \* host clock, seconds
    crash_times,     \* Watcher.crash_times
    high_cpu_start,  \* Watcher.high_cpu_start (None or a time)
    ticks,           \* number of monitor_iteration calls so far
    iter,            \* what the last monitor_iteration observed and did, and the
                     \* instants of the last calls of launch_runner
    procs,           \* process table: pid -> process
    marker,          \* mtime of <main>/logs/bootstrapping, or None
    dirs,            \* branches whose working copy <AGENT_DIR>/<b>/autofram exists
    comms,           \* COMMS.md of each working copy (None: missing)
    errors_log,      \* size of logs/errors.log of each working copy (None: missing)
    bootstrap_log,   \* lines of <main>/logs/bootstrap.log
    contracts        \* contracts/ and contracts_completed/ of <main>, last batch

vars == <<now, crash_times, high_cpu_start, ticks, iter, procs, marker, dirs,
          comms, errors_log, bootstrap_log, contracts>>

None == -1                  \* an absent time or size
NoFile == <<"<no file>">>   \* the content of a file that does not exist
NoHash == <<"<None>">>      \* hash_comms() of a missing COMMS.md

----------------------------------------------------------------------------
(* Program constants *)

CHECK_INTERVAL == 5
CPU_THRESHOLD == 95
CPU_DURATION == 60
LOG_SIZE_LIMIT == 1048576
CRASH_LIMIT == 5
CRASH_WINDOW_SECONDS == 3600
POST_LAUNCH_DELAY == 10
POST_CRASH_LIMIT_DELAY == 300
TERMINATE_WAIT == 10
CPU_SAMPLE_INTERVAL == 1
RETRY_DELAY_SECONDS == 60
\* WORK_INTERVAL_MINUTES of the Runner's environment; 10 in the tests.
work_interval_minutes == 10
\* The grace period of the bootstrap marker.  watcher.py does not define it;
\* the value is the one the specification and the tests' Watcher refer to.
BOOTSTRAP_GRACE_SECONDS == 60

----------------------------------------------------------------------------
(* Bounds of the model *)

MaxProcs == 2       \* process table slots
MaxTicks == 2       \* monitor iterations followed beside a Runner at work
MaxLongTicks == 17  \* monitor iterations followed through the crash window
MaxCalls == 2       \* tool calls in one model response
MaxRequests == 2    \* chat-completion requests in one cycle
LogWindow == 4      \* lines of bootstrap.log kept (the oldest are dropped)
MaxHealthTicks == 12  \* monitor iterations followed over a Runner under load
MaxLogLines == 3       \* lines of a bootstrap.log found at the start
MaxContracts == 2
MaxLoopRequests == 3  \* chat-completion requests in a cycle of SpecLoop
MaxClock == 700     \* a Runner at its cycles is followed up to this time
MaxWindowTicks == 7      \* monitor iterations and quiet periods of SpecWindow
QuietTicks == 600        \* monitor iterations of a quiet period
MaxStartMinute == 59     \* minutes of the hour at which a system is started
MaxIntervalClock == 4500 \* a Runner at its sleeps is followed up to this time

Pids == 1..MaxProcs
Branches == {"main", "feat"}

----------------------------------------------------------------------------
(* Strings and paths *)

Contains(s, tok) == \E i \in DOMAIN s : s[i] = tok

RECURSIVE Join(_)
Join(parts) ==
    IF parts = <<>> THEN <<>>
    ELSE IF Len(parts) = 1 THEN parts[1]
    ELSE parts[1] \o <<" ">> \o Join(Tail(parts))

get_branch_dir(branch) == <<"/home/agent/", branch, "/autofram">>

main_dir == get_branch_dir("main")

runner_path_of(dir) == dir \o <<"/src/autofram/", "runner.py">>

----------------------------------------------------------------------------
(* Processes *)

NoKey == "<None>"           \* os.environ.get("OPENROUTER_API_KEY") of an unset variable

\* A free slot of the process table.  After a process has exited, status and
\* said keep its exit status and the last line it logged.
NoProc ==
    [image |-> "none", cmdline |-> <<>>, cwd |-> "main", pc |-> "none",
     last_comms_hash |-> NoHash, calls |-> <<>>, idx |-> 0, stage |-> "none",
     results |-> <<>>, messages |-> <<>>, requests |-> 0, effects |-> <<>>,
     api_key |-> NoKey, work_interval_minutes |-> work_interval_minutes,
     comms_hash |-> NoHash, status |-> "none", said |-> ""]

\* What is left of a process that has exited by itself.
Exited(status, said) == [NoProc EXCEPT !.status = status, !.said = said]

\* A freshly created Runner object (Runner.__init__) in an image started with
\* the given command line and working directory.
NewRunner(cmdline, cwd) ==
    [NoProc EXCEPT !.image = "runner", !.cmdline = cmdline, !.cwd = cwd,
                   !.pc = "start", !.api_key = "sk-key"]

Live(ps) == {p \in Pids : ps[p].image # "none"}

\* The pid the operating system gives the next process: the lowest free slot.
NewPid(ps) == CHOOSE p \in Pids : ps[p].image = "none"
                                  /\ \A q \in Pids : q < p => ps[q].image # "none"

\* Watcher.is_runner_cmdline
is_runner_cmdline(cmdline) ==
    LET cmdline_str == Join(cmdline)
    IN  Contains(cmdline_str, "runner.py") /\ ~Contains(cmdline_str, "watcher.py")

\* Watcher.find_runner_process: the first process, in pid order, whose command
\* line is a Runner's; 0 when there is none.
find_runner_process(ps) ==
    LET found == {p \in Pids : ps[p].image # "none" /\ ps[p].cmdline # <<>>
                                /\ is_runner_cmdline(ps[p].cmdline)}
    IN  IF found = {} THEN 0
        ELSE CHOOSE p \in found : \A q \in found : p <= q

----------------------------------------------------------------------------
(* The Watcher.  Each method is an operator on W, the Watcher's view while  *)
(* one monitor_iteration runs: its own fields, the clock, the process      *)
(* table and <main>/COMMS.md, and the record of what it did.  `in` holds   *)
(* what the environment answers during the iteration.                      *)

WatcherView ==
    [t |-> now, crash_times |-> crash_times, high_cpu_start |-> high_cpu_start,
     procs |-> procs, comms_md |-> comms["main"],
     at |-> now, found |-> 0, log |-> <<>>, slept |-> <<>>, signals |-> <<>>,
     spawned |-> 0, launched |-> None, crashes |-> 0, error |-> "None"]

\* What the environment may answer during an iteration, drawn from the sets
\* of E.  An answer nobody asks for is fixed, so that each behaviour of the
\* iteration is drawn once.
\*   cpu      proc.cpu_percent(interval=1)
\*   gone     the process has exited since the scan (psutil.NoSuchProcess)
\*   exits    the process exits within the wait that follows SIGTERM
\*   script   <main>/src/autofram/runner.py exists
\*   sync_ok  git fetch and git reset succeed
\*   write_ok COMMS.md can be read and written
\*   survives the process launch_runner starts is still there when the
\*            iteration ends (it has not crashed during the sleeps)
AnyAnswer ==
    [cpu |-> {CPU_THRESHOLD - 1, CPU_THRESHOLD}, gone |-> BOOLEAN, exits |-> BOOLEAN,
     script |-> BOOLEAN, sync_ok |-> BOOLEAN, write_ok |-> BOOLEAN,
     survives |-> BOOLEAN]

Observations(proc, E) ==
    IF proc = 0
    THEN {[cpu |-> 0, gone |-> FALSE]}
    ELSE {[cpu |-> c, gone |-> FALSE] : c \in E.cpu}
           \cup {[cpu |-> 0, gone |-> TRUE] : g \in E.gone \ {FALSE}}

Calm == [exits |-> TRUE, script |-> TRUE, sync_ok |-> TRUE, write_ok |-> TRUE,
         survives |-> TRUE]

\* The answers to an iteration that handles a crash; `limit` tells whether the
\* crash reaches the limit.  An answer to a question the iteration does not
\* ask is the one of Calm.
Reactions(proc, gone, limit, E) ==
    {[exits |-> (proc = 0 \/ gone) \/ r.exits,
      script |-> limit \/ r.script,
      sync_ok |-> (limit \/ ~r.script) \/ r.sync_ok,
      write_ok |-> ~limit \/ r.write_ok,
      survives |-> (limit \/ ~r.script) \/ r.survives] :
        r \in [exits : E.exits, script : E.script, sync_ok : E.sync_ok,
               write_ok : E.write_ok, survives : E.survives]}

Inputs(o, r) ==
    [cpu |-> o.cpu, gone |-> o.gone, exits |-> r.exits, script |-> r.script,
     sync_ok |-> r.sync_ok, write_ok |-> r.write_ok, survives |-> r.survives]

\* Watcher.log
log(W, message) == [W EXCEPT !.log = Append(@, message)]

\* time.sleep
sleep(W, seconds) == [W EXCEPT !.t = @ + seconds, !.slept = Append(@, seconds)]

\* Watcher.reset_cpu_tracking
reset_cpu_tracking(W) == [W EXCEPT !.high_cpu_start = None]

\* record_crash that never evicts.
record_crash_keeps_all(W) ==
    LET appended == Append(W.crash_times, W.t)
        W1 == [W EXCEPT !.crash_times = appended, !.crashes = @ + 1]
    IN  [w |-> log(W1, "Crash recorded."), ret |-> Len(appended) >= CRASH_LIMIT]

\* record_crash that reports the limit only once it is exceeded.
record_crash_limit_exceeded(W) ==
    LET t == W.t
        appended == Append(W.crash_times, t)
        cutoff == t - CRASH_WINDOW_SECONDS
        kept == SelectSeq(appended, LAMBDA c : c > cutoff)
        W1 == [W EXCEPT !.crash_times = kept, !.crashes = @ + 1]
    IN  [w |-> log(W1, "Crash recorded."), ret |-> Len(kept) > CRASH_LIMIT]

\* record_crash that reports the limit one crash early.
record_crash_limit_early(W) ==
    LET t == W.t
        appended == Append(W.crash_times, t)
        cutoff == t - CRASH_WINDOW_SECONDS
        kept == SelectSeq(appended, LAMBDA c : c > cutoff)
        W1 == [W EXCEPT !.crash_times = kept, !.crashes = @ + 1]
    IN  [w |-> log(W1, "Crash recorded."), ret |-> Len(kept) >= CRASH_LIMIT - 1]

\* record_crash that enters the crash twice.
record_crash_twice(W) ==
    LET t == W.t
        appended == W.crash_times \o <<t, t>>
        cutoff == t - CRASH_WINDOW_SECONDS
        kept == SelectSeq(appended, LAMBDA c : c > cutoff)
        W1 == [W EXCEPT !.crash_times = kept, !.crashes = @ + 1]
    IN  [w |-> log(W1, "Crash recorded."), ret |-> Len(kept) >= CRASH_LIMIT]

\* Watcher.record_crash: the view after it, and its return value.
record_crash(W) ==
    LET t == W.t
        appended == Append(W.crash_times, t)
        cutoff == t - CRASH_WINDOW_SECONDS
        kept == SelectSeq(appended, LAMBDA c : c > cutoff)
        W1 == [W EXCEPT !.crash_times = kept, !.crashes = @ + 1]
    IN  [w |-> log(W1, "Crash recorded."), ret |-> Len(kept) >= CRASH_LIMIT]

\* Watcher.find_last_bootstrap_index (0-based; -1 when there is none)
find_last_bootstrap_index(lines) ==
    LET idx == {i \in DOMAIN lines : lines[i] = "BOOTSTRAPPING"}
    IN  IF idx = {} THEN -1
        ELSE (CHOOSE i \in idx : \A j \in idx : j <= i) - 1

\* has_success_after that looks at the whole log.
has_success_anywhere(lines, start_idx) ==
    \E i \in DOMAIN lines : lines[i] = "SUCCESS"

\* Watcher.has_success_after
has_success_after(lines, start_idx) ==
    \E i \in DOMAIN lines : i - 1 > start_idx /\ lines[i] = "SUCCESS"

\* Watcher.check_bootstrap_success
check_bootstrap_success(blog) ==
    IF blog = NoFile THEN FALSE
    ELSE LET last_bootstrap_idx == find_last_bootstrap_index(blog)
         IN  IF last_bootstrap_idx = -1 THEN FALSE
             ELSE has_success_after(blog, last_bootstrap_idx)

\* Watcher.alert_pm, with commit_and_push_file (every git step runs with
\* check=False; an exception is caught and logged).
alert_pm(W, in) ==
    LET W1 == log(W, "ALERT")
        content == IF W1.comms_md = NoFile THEN <<>> ELSE W1.comms_md
    IN  IF in.write_ok
        THEN [W1 EXCEPT !.comms_md = content \o <<"WATCHER ALERT">>]
        ELSE log(W1, "Failed to alert PM")

\* Watcher.terminate_process
terminate_process(W, pid, in) ==
    LET dead == [W EXCEPT !.procs[pid] = NoProc]
    IN  IF in.gone
        THEN dead       \* terminate() and then kill() raise NoSuchProcess
        ELSE IF in.exits
        THEN [dead EXCEPT !.signals = Append(@, "SIGTERM")]
        ELSE [dead EXCEPT !.signals = @ \o <<"SIGTERM", "SIGKILL">>,
                          !.t = @ + TERMINATE_WAIT]

\* COMMS.md as origin holds it: what a clone or a hard reset leaves in a copy.
OriginComms == <<"task">>

\* Git.sync(main_dir, "main") when fetch and reset succeed: the working copy
\* of main is what origin/main holds.
sync(W) == [W EXCEPT !.comms_md = OriginComms]

launch_runner_from_newest_copy(W, in) ==
    LET W1 == log(reset_cpu_tracking([W EXCEPT !.launched = W.t]),
                  "Launching runner from main...")
        branch == IF "feat" \in dirs THEN "feat" ELSE "main"
        W2 == IF in.sync_ok THEN sync(W1) ELSE log(W1, "Warning: git sync failed")
        pid == NewPid(W2.procs)
        started == NewRunner(<<<<"python">>, runner_path_of(get_branch_dir(branch))>>,
                             branch)
        W3 == [W2 EXCEPT !.procs[pid] = IF in.survives THEN started ELSE NoProc,
                         !.spawned = pid]
    IN  IF ~in.script
        THEN log(W1, "ERROR: Runner not found")
        ELSE log(W3, "Runner launched.")

\* launch_runner that gives up when the sync fails.
launch_runner_needs_sync(W, in) ==
    LET W1 == log(reset_cpu_tracking([W EXCEPT !.launched = W.t]),
                  "Launching runner from main...")
        runner_path == runner_path_of(main_dir)
        pid == NewPid(W1.procs)
        started == NewRunner(<<<<"python">>, runner_path>>, "main")
        W3 == [sync(W1) EXCEPT !.procs[pid] = IF in.survives THEN started ELSE NoProc,
                               !.spawned = pid]
    IN  IF ~in.script
        THEN log(W1, "ERROR: Runner not found")
        ELSE IF ~in.sync_ok
        THEN log(W1, "Warning: git sync failed")
        ELSE log(W3, "Runner launched.")

\* Watcher.launch_runner
launch_runner(W, in) ==
    LET W1 == log(reset_cpu_tracking([W EXCEPT !.launched = W.t]),
                  "Launching runner from main...")
        runner_path == runner_path_of(main_dir)
        W2 == IF in.sync_ok THEN sync(W1) ELSE log(W1, "Warning: git sync failed")
        pid == NewPid(W2.procs)
        started == NewRunner(<<<<"python">>, runner_path>>, "main")
        W3 == [W2 EXCEPT !.procs[pid] = IF in.survives THEN started ELSE NoProc,
                         !.spawned = pid]
    IN  IF ~in.script
        THEN log(W1, "ERROR: Runner not found")
        ELSE log(W3, "Runner launched.")

check_cpu_health_longer_than(W, in) ==
    LET W1 == [W EXCEPT !.t = @ + CPU_SAMPLE_INTERVAL]
        cpu_percent == in.cpu
    IN  IF cpu_percent >= CPU_THRESHOLD
        THEN IF W1.high_cpu_start = None
             THEN [w |-> [W1 EXCEPT !.high_cpu_start = W1.t], ret |-> "None"]
             ELSE IF W1.t - W1.high_cpu_start > CPU_DURATION
             THEN [w |-> W1, ret |-> "CPU runaway detected"]
             ELSE [w |-> W1, ret |-> "None"]
        ELSE [w |-> reset_cpu_tracking(W1), ret |-> "None"]

\* Watcher.check_cpu_health: the view after it, and the error it returns.
check_cpu_health(W, in) ==
    LET W1 == [W EXCEPT !.t = @ + CPU_SAMPLE_INTERVAL]
        cpu_percent == in.cpu
    IN  IF cpu_percent >= CPU_THRESHOLD
        THEN IF W1.high_cpu_start = None
             THEN [w |-> [W1 EXCEPT !.high_cpu_start = W1.t], ret |-> "None"]
             ELSE IF W1.t - W1.high_cpu_start >= CPU_DURATION
             THEN [w |-> W1, ret |-> "CPU runaway detected"]
             ELSE [w |-> W1, ret |-> "None"]
        ELSE [w |-> reset_cpu_tracking(W1), ret |-> "None"]

\* check_log_size that reports a log of exactly the limit.
check_log_size_at_limit(size) ==
    IF size # None /\ size >= LOG_SIZE_LIMIT THEN "Log explosion detected" ELSE "None"

\* Watcher.check_log_size
check_log_size(size) ==
    IF size # None /\ size > LOG_SIZE_LIMIT THEN "Log explosion detected" ELSE "None"

\* Watcher.check_runner_health
check_runner_health(W, in, size) ==
    IF in.gone
    THEN [w |-> W, ret |-> "Process no longer accessible"]
    ELSE LET c == check_cpu_health(W, in)
         IN  IF c.ret # "None" THEN c
             ELSE [w |-> c.w, ret |-> check_log_size(size)]

\* handle_crash_and_restart that a failing alert_pm leaves by exception.
handle_crash_and_restart_alert_raises(W, in) ==
    LET r == record_crash(W)
    IN  IF r.ret
        THEN IF in.write_ok
             THEN sleep(log(alert_pm(r.w, in),
                            "Crash limit reached. Stopping restart attempts."),
                        POST_CRASH_LIMIT_DELAY)
             ELSE alert_pm(r.w, in)
        ELSE sleep(launch_runner(r.w, in), POST_LAUNCH_DELAY)

\* handle_crash_and_restart that pauses at the limit and restarts all the same.
handle_crash_and_restart_restarts_at_limit(W, in) ==
    LET r == record_crash(W)
    IN  IF r.ret
        THEN sleep(launch_runner(
                       sleep(log(alert_pm(r.w, in),
                                 "Crash limit reached. Stopping restart attempts."),
                             POST_CRASH_LIMIT_DELAY), in),
                   POST_LAUNCH_DELAY)
        ELSE sleep(launch_runner(r.w, in), POST_LAUNCH_DELAY)

\* Watcher.handle_crash_and_restart
handle_crash_and_restart(W, in) ==
    LET r == record_crash(W)
    IN  IF r.ret
        THEN sleep(log(alert_pm(r.w, in), "Crash limit reached. Stopping restart attempts."),
                   POST_CRASH_LIMIT_DELAY)
        ELSE sleep(launch_runner(r.w, in), POST_LAUNCH_DELAY)

\* Watcher.is_bootstrap_in_progress as tests/test_watcher.py calls it: the
\* marker exists and is younger than the grace period.  watcher.py has no such
\* method and handle_missing_runner does not look at the marker.
is_bootstrap_in_progress(mk, t) == mk # None /\ t - mk < BOOTSTRAP_GRACE_SECONDS

\* handle_missing_runner with a grace check that never lets the marker expire.
handle_missing_runner_marker_never_expires(W, in, blog) ==
    LET W1 == log(W, "Runner not found!")
        W2 == IF ~check_bootstrap_success(blog)
              THEN log(W1, "Bootstrap failed, falling back to main")
              ELSE W1
    IN  IF marker # None THEN log(W, "Bootstrap in progress, skipping")
        ELSE handle_crash_and_restart(W2, in)

\* Watcher.handle_missing_runner
handle_missing_runner(W, in, blog) ==
    LET W1 == log(W, "Runner not found!")
        W2 == IF ~check_bootstrap_success(blog)
              THEN log(W1, "Bootstrap failed, falling back to main")
              ELSE W1
    IN  handle_crash_and_restart(W2, in)

\* handle_unhealthy_runner that restarts before it terminates.
handle_unhealthy_runner_restarts_first(W, pid, error, in) ==
    terminate_process(
        handle_crash_and_restart(log([W EXCEPT !.error = error], "Unhealthy runner"), in),
        pid, in)

\* Watcher.handle_unhealthy_runner
handle_unhealthy_runner(W, pid, error, in) ==
    handle_crash_and_restart(
        terminate_process(log([W EXCEPT !.error = error], "Unhealthy runner"), pid, in), in)

\* monitor_iteration that restarts the Runner whatever its health.
monitor_iteration_restarts_healthy(W, in, size, blog) ==
    LET proc == find_runner_process(W.procs)
        W1 == [W EXCEPT !.found = proc]
        h == check_runner_health(W1, in, size)
    IN  IF proc = 0
        THEN handle_missing_runner(W1, in, blog)
        ELSE handle_unhealthy_runner(h.w, proc, h.ret, in)

\* Watcher.monitor_iteration
monitor_iteration(W, in, size, blog) ==
    LET proc == find_runner_process(W.procs)
        W1 == [W EXCEPT !.found = proc]
        h == check_runner_health(W1, in, size)
    IN  IF proc = 0
        THEN handle_missing_runner(W1, in, blog)
        ELSE IF h.ret # "None"
        THEN handle_unhealthy_runner(h.w, proc, h.ret, in)
        ELSE h.w

\* One pass of the loop of Watcher.run: monitor_iteration, then the poll sleep.
run_iteration(W, in, size, blog) ==
    sleep(monitor_iteration(W, in, size, blog), CHECK_INTERVAL)

\* The instants at which the Watcher has called launch_runner, the newest
\* last; CRASH_LIMIT of them are remembered.
Launches(W) ==
    LET all == IF W.launched = None THEN iter.launches
               ELSE Append(iter.launches, W.launched)
    IN  IF Len(all) > CRASH_LIMIT THEN Tail(all) ELSE all

\* The Watcher's loop runs once, the environment answering `in`; the clock
\* moves by every wait the iteration made.
Iterate(in) ==
    \E W \in {run_iteration(WatcherView, in, errors_log["main"], bootstrap_log)} :
        /\ now' = W.t
        /\ crash_times' = W.crash_times
        /\ high_cpu_start' = W.high_cpu_start
        /\ procs' = W.procs
        /\ comms' = [comms EXCEPT !["main"] = W.comms_md]
        /\ iter' = [at |-> W.at, found |-> W.found, error |-> W.error,
                    log |-> W.log, slept |-> W.slept, signals |-> W.signals,
                    spawned |-> W.spawned, crashes |-> W.crashes, input |-> in,
                    launches |-> Launches(W)]

MonitorIteration(E, max_ticks) ==
    /\ ticks < max_ticks
    /\ find_runner_process(procs) # 0 \/ Live(procs) # Pids
    /\ \E proc \in {find_runner_process(procs)} :
         \E o \in Observations(proc, E) :
           \E calm \in {run_iteration(WatcherView, Inputs(o, Calm), errors_log["main"],
                                      bootstrap_log)} :
             \E r \in (IF calm.crashes = 0 THEN {Calm}
                       ELSE Reactions(proc, o.gone,
                                      Len(calm.crash_times) >= CRASH_LIMIT, E)) :
               Iterate(Inputs(o, r))
    /\ ticks' = ticks + 1
    /\ UNCHANGED <<marker, dirs, errors_log, bootstrap_log, contracts>>

\* The loop of Watcher.run runs n times over a Runner that stays healthy: an
\* iteration that handles no crash leaves the Watcher's fields and the
\* processes as they are, so that n of them move the clock n times as far.
MonitorIterations(n, max_ticks) ==
    /\ ticks < max_ticks
    /\ find_runner_process(procs) # 0
    /\ \E in \in {Inputs([cpu |-> CPU_THRESHOLD - 1, gone |-> FALSE], Calm)} :
         \E W \in {run_iteration(WatcherView, in, errors_log["main"], bootstrap_log)} :
            /\ W.crashes = 0
            /\ now' = now + n * (W.t - now)
            /\ high_cpu_start' = W.high_cpu_start
            /\ iter' = [at |-> now + (n - 1) * (W.t - now), found |-> W.found,
                        error |-> W.error, log |-> W.log, slept |-> W.slept,
                        signals |-> W.signals, spawned |-> W.spawned,
                        crashes |-> W.crashes, input |-> in, launches |-> iter.launches]
    /\ ticks' = ticks + 1
    /\ UNCHANGED <<crash_times, procs, marker, dirs, comms, errors_log, bootstrap_log,
                   contracts>>

----------------------------------------------------------------------------
(* The Runner *)

\* Runner.hash_comms
hash_comms(content) == IF content = NoFile THEN NoHash ELSE <<"sha256">> \o content

\* Runner.log_bootstrap, for the log in <main>/logs.
log_bootstrap(blog, status) ==
    LET lines == IF blog = NoFile THEN <<status>> ELSE Append(blog, status)
    IN  IF Len(lines) > LogWindow THEN Tail(lines) ELSE lines

\* Runner.build_messages
build_messages(system_prompt) ==
    << [role |-> "system", content |-> system_prompt],
       [role |-> "user", content |-> <<"Continue.">>] >>

\* Runner.calculate_sleep_seconds at clock t: now.minute is the minute of the
\* hour, and the target is that minute plus what is missing to the next
\* multiple of self.work_interval_minutes, seconds zero.
calculate_sleep_seconds(pr, t) ==
    LET minute == (t \div 60) % 60
        to_next == pr.work_interval_minutes - (minute % pr.work_interval_minutes)
        minutes_to_next == IF to_next = 0 THEN pr.work_interval_minutes ELSE to_next
        next_time == (t - (t % 60)) + minutes_to_next * 60
    IN  IF next_time - t > 0 THEN next_time - t ELSE 0

\* Runner.create_client at the head of Runner.run: without an API key the
\* process logs and exits with status 1, with one it enters the loop.
create_client_without_check(pr) == [pr EXCEPT !.pc = "cycle"]

create_client(pr) ==
    IF pr.api_key = NoKey
    THEN Exited("1", "OPENROUTER_API_KEY not set")
    ELSE [pr EXCEPT !.pc = "cycle"]

\* The environment of a Runner that has not started yet holds another
\* WORK_INTERVAL_MINUTES: Runner.__init__ read W.
WorkIntervalConfigured(p, W) ==
    /\ procs[p].image = "runner" /\ procs[p].pc = "start"
    /\ procs[p].work_interval_minutes = work_interval_minutes /\ W # work_interval_minutes
    /\ procs' = [procs EXCEPT ![p].work_interval_minutes = W]
    /\ UNCHANGED <<now, crash_times, high_cpu_start, ticks, iter, marker, dirs, comms,
                   errors_log, bootstrap_log, contracts>>

\* The environment of a Runner that has not started yet holds no
\* OPENROUTER_API_KEY: Runner.__init__ read None.
ApiKeyUnset(p) ==
    /\ procs[p].image = "runner" /\ procs[p].pc = "start"
    /\ procs[p].api_key # NoKey
    /\ procs' = [procs EXCEPT ![p].api_key = NoKey]
    /\ UNCHANGED <<now, crash_times, high_cpu_start, ticks, iter, marker, dirs, comms,
                   errors_log, bootstrap_log, contracts>>

\* Runner.start up to the main loop: BOOTSTRAPPING, errors.log truncated,
\* SUCCESS, and the head of Runner.run.
RunnerStart(p) ==
    /\ procs[p].image = "runner" /\ procs[p].pc = "start"
    /\ bootstrap_log' = IF procs[p].cwd = "main"
                        THEN log_bootstrap(log_bootstrap(bootstrap_log, "BOOTSTRAPPING"),
                                           "SUCCESS")
                        ELSE bootstrap_log
    /\ errors_log' = [errors_log EXCEPT ![procs[p].cwd] = 0]
    /\ procs' = [procs EXCEPT ![p] = create_client(@)]
    /\ UNCHANGED <<now, crash_times, high_cpu_start, ticks, iter, marker, dirs, comms, contracts>>

\* What git pull --ff-only may leave as COMMS.md of a working copy that held
\* content: the same, a version with a further task, or no file.
PullOutcomes(content) == {content, <<"task", "more">>, NoFile}

\* Runner.run_single_iteration up to the first chat-completion request,
\* `pulled` being COMMS.md as pull_latest leaves it: the cycle is skipped when
\* its hash is last_comms_hash, and else the request is built and issued.
run_single_iteration_always_runs(pr, pulled) ==
    [pr EXCEPT !.pc = "chat", !.comms_hash = hash_comms(pulled),
               !.messages = build_messages(pulled), !.requests = 1]

run_single_iteration(pr, pulled) ==
    LET comms_hash == hash_comms(pulled)
    IN  IF comms_hash = pr.last_comms_hash
        THEN [pr EXCEPT !.pc = "sleep", !.comms_hash = comms_hash]
        ELSE [pr EXCEPT !.pc = "chat", !.comms_hash = comms_hash,
                        !.messages = build_messages(pulled), !.requests = 1]

RunSingleIterationAfterPull(p, pulled) ==
    /\ procs[p].image = "runner" /\ procs[p].pc = "cycle"
    /\ comms' = [comms EXCEPT ![procs[p].cwd] = pulled]
    /\ procs' = [procs EXCEPT ![p] = run_single_iteration(@, pulled)]
    /\ UNCHANGED <<now, crash_times, high_cpu_start, ticks, iter, marker, dirs,
                   errors_log, bootstrap_log, contracts>>

\* The same when the pull brings nothing new.
RunSingleIteration(p) == RunSingleIterationAfterPull(p, comms[procs[p].cwd])

\* Runner.sleep_until_next_interval returns.
SleepDone(p) ==
    /\ procs[p].image = "runner" /\ procs[p].pc = "sleep"
    /\ procs' = [procs EXCEPT ![p].pc = "cycle", ![p].messages = <<>>,
                              ![p].requests = 0]
    /\ UNCHANGED <<now, crash_times, high_cpu_start, ticks, iter, marker, dirs, comms,
                   errors_log, bootstrap_log, contracts>>

\* Runner.sleep_until_next_interval, the clock following the Runner: the
\* sleep ends at the instant calculate_sleep_seconds aims at.  The Runner is
\* followed up to the clock max_clock.
SleepUntilNextIntervalWithin(p, max_clock) ==
    /\ procs[p].image = "runner" /\ procs[p].pc = "sleep"
    /\ now + calculate_sleep_seconds(procs[p], now) <= max_clock
    /\ now' = now + calculate_sleep_seconds(procs[p], now)
    /\ procs' = [procs EXCEPT ![p].pc = "cycle", ![p].messages = <<>>,
                              ![p].requests = 0]
    /\ UNCHANGED <<crash_times, high_cpu_start, ticks, iter, marker, dirs, comms,
                   errors_log, bootstrap_log, contracts>>

SleepUntilNextInterval(p) == SleepUntilNextIntervalWithin(p, MaxClock)

\* An exception unwinds run_single_iteration into the handler of Runner.run
\* (except Exception): the cycle's locals are gone, the error is logged and
\* the handler is about to sleep.
Raised_records_hash(pr) ==
    [pr EXCEPT !.pc = "retry", !.messages = <<>>, !.requests = 0, !.calls = <<>>,
               !.idx = 0, !.results = <<>>, !.stage = "none", !.effects = <<>>,
               !.last_comms_hash = pr.comms_hash]

Raised(pr) ==
    [pr EXCEPT !.pc = "retry", !.messages = <<>>, !.requests = 0, !.calls = <<>>,
               !.idx = 0, !.results = <<>>, !.stage = "none", !.effects = <<>>]

\* The pull, the loading of the prompt or a chat-completion request raises.
CycleRaises_unhandled(p) ==
    /\ procs[p].image = "runner" /\ procs[p].pc \in {"cycle", "chat"}
    /\ procs' = [procs EXCEPT ![p] = Exited("1", "Traceback")]
    /\ UNCHANGED <<now, crash_times, high_cpu_start, ticks, iter, marker, dirs, comms,
                   errors_log, bootstrap_log, contracts>>

CycleRaises(p) ==
    /\ procs[p].image = "runner" /\ procs[p].pc \in {"cycle", "chat"}
    /\ procs' = [procs EXCEPT ![p] = [Raised(@) EXCEPT !.said = "LLM loop error"]]
    /\ UNCHANGED <<now, crash_times, high_cpu_start, ticks, iter, marker, dirs, comms,
                   errors_log, bootstrap_log, contracts>>

\* time.sleep(RETRY_DELAY_SECONDS) in the handler of Runner.run returns and
\* the loop calls run_single_iteration again.
RetryDelay_until_boundary(p) ==
    /\ procs[p].image = "runner" /\ procs[p].pc = "retry"
    /\ now + calculate_sleep_seconds(procs[p], now) <= MaxClock
    /\ now' = now + calculate_sleep_seconds(procs[p], now)
    /\ procs' = [procs EXCEPT ![p].pc = "cycle"]
    /\ UNCHANGED <<crash_times, high_cpu_start, ticks, iter, marker, dirs, comms,
                   errors_log, bootstrap_log, contracts>>

RetryDelay(p) ==
    /\ procs[p].image = "runner" /\ procs[p].pc = "retry"
    /\ now + RETRY_DELAY_SECONDS <= MaxClock
    /\ now' = now + RETRY_DELAY_SECONDS
    /\ procs' = [procs EXCEPT ![p].pc = "cycle"]
    /\ UNCHANGED <<crash_times, high_cpu_start, ticks, iter, marker, dirs, comms,
                   errors_log, bootstrap_log, contracts>>

\* SIGINT reaches the Runner in its run loop.  Inside the try block
\* KeyboardInterrupt is caught: "Shutdown requested." is logged, the loop is
\* left and the process exits with status 0.  During the sleep of the
\* except Exception handler no clause of the try statement applies: the
\* interpreter ends the process on the uncaught KeyboardInterrupt.
KeyboardInterrupt(p) ==
    /\ procs[p].image = "runner"
    /\ procs[p].pc \in {"cycle", "chat", "tools", "sleep", "retry"}
    /\ procs' = [procs EXCEPT ![p] =
                   IF procs[p].pc = "retry"
                   THEN Exited("SIGINT", "LLM loop error")
                   ELSE Exited("0", "Shutdown requested.")]
    /\ UNCHANGED <<now, crash_times, high_cpu_start, ticks, iter, marker, dirs, comms,
                   errors_log, bootstrap_log, contracts>>

\* The tool calls a model response may carry.
UpgradeCalls ==
    [name : {"bootstrap"}, arg : Branches] \cup {[name |-> "rollback", arg |-> ""]}

ToolCalls ==
    UpgradeCalls \cup {[name |-> "write_file", arg |-> "COMMS.md"],
                       [name |-> "read_file", arg |-> "/no/such"]}

\* The tool calls that return.
LoopCalls ==
    {[name |-> "write_file", arg |-> "COMMS.md"],
     [name |-> "read_file", arg |-> "/no/such"]}

\* An argument string that json.loads rejects.
BadJson == "{not json"

\* The tool calls of the responses a Runner at its cycles receives: a write
\* of COMMS.md, reads of a missing path and of a directory, a call with
\* malformed arguments, and a call of a tool that does not exist.
CycleCalls ==
    {[name |-> "write_file", arg |-> "COMMS.md"],
     [name |-> "read_file", arg |-> "/no/such"],
     [name |-> "read_file", arg |-> "src"],
     [name |-> "read_file", arg |-> BadJson],
     [name |-> "nonexistent_tool", arg |-> ""]}

RECURSIVE SeqsUpTo(_, _)
SeqsUpTo(S, n) ==
    IF n = 0 THEN {<<>>}
    ELSE LET shorter == SeqsUpTo(S, n - 1)
         IN  shorter \cup {Append(s, x) : s \in shorter, x \in S}

HasUpgrade(calls) ==
    \E i \in DOMAIN calls : calls[i].name \in {"bootstrap", "rollback"}

\* The last statement of run_single_iteration: COMMS.md, with the content it
\* has by now, is hashed again and the hash is kept.
end_of_cycle_keeps_first_hash(pr, content) ==
    [pr EXCEPT !.pc = "sleep", !.last_comms_hash = pr.comms_hash]

end_of_cycle(pr, content) ==
    [pr EXCEPT !.pc = "sleep", !.last_comms_hash = hash_comms(content)]

\* A response handling with a cap on the nested requests: past the first
\* request of a cycle a response ends the cycle, tool calls or not.
ChatResponseWithin_capped(p, Calls, max_calls, max_requests) ==
    /\ procs[p].image = "runner" /\ procs[p].pc = "chat"
    /\ \E tool_calls \in SeqsUpTo(Calls, max_calls) :
         /\ tool_calls # <<>> => procs[p].requests < max_requests
         /\ HasUpgrade(tool_calls) => Cardinality(Live(procs)) < MaxProcs
         /\ procs' = IF tool_calls = <<>> \/ procs[p].requests > 1
                     THEN [procs EXCEPT ![p] =
                             [end_of_cycle(@, comms[procs[p].cwd])
                                EXCEPT !.calls = tool_calls]]
                     ELSE [procs EXCEPT ![p].pc = "tools", ![p].calls = tool_calls,
                                        ![p].idx = 1, ![p].results = <<>>,
                                        ![p].stage = "call"]
    /\ UNCHANGED <<now, crash_times, high_cpu_start, ticks, iter, marker, dirs, comms,
                   errors_log, bootstrap_log, contracts>>

\* A chat-completion response arrives (run_single_iteration lines 291-305 and
\* the loop of process_tool_calls): without tool calls the cycle ends and the
\* hash of COMMS.md is recorded; with tool calls they are dispatched.  The
\* code sets no limit to the requests of a cycle; the model follows a cycle
\* up to max_requests of them.
ChatResponseWithin(p, Calls, max_calls, max_requests) ==
    /\ procs[p].image = "runner" /\ procs[p].pc = "chat"
    /\ \E tool_calls \in SeqsUpTo(Calls, max_calls) :
         /\ tool_calls # <<>> => procs[p].requests < max_requests
         /\ HasUpgrade(tool_calls) => Cardinality(Live(procs)) < MaxProcs
         /\ procs' = IF tool_calls = <<>>
                     THEN [procs EXCEPT ![p] = end_of_cycle(@, comms[procs[p].cwd])]
                     ELSE [procs EXCEPT ![p].pc = "tools", ![p].calls = tool_calls,
                                        ![p].idx = 1, ![p].results = <<>>,
                                        ![p].stage = "call"]
    /\ UNCHANGED <<now, crash_times, high_cpu_start, ticks, iter, marker, dirs, comms,
                   errors_log, bootstrap_log, contracts>>

ChatResponse(p, Calls, max_calls) == ChatResponseWithin(p, Calls, max_calls, MaxRequests)

----------------------------------------------------------------------------
(* Tool dispatch: Runner.execute_tool_call and tools.execute_tool *)

InCall(p, names) ==
    /\ procs[p].image = "runner" /\ procs[p].pc = "tools"
    /\ procs[p].idx <= Len(procs[p].calls)
    /\ procs[p].calls[procs[p].idx].name \in names

CurrentCall(p) == procs[p].calls[procs[p].idx]

\* The message execute_tool_call returns for the current call.
tool_result(pr, content) ==
    [tool_call_id |-> pr.idx, role |-> "tool", content |-> content]

\* The content execute_tool_call forms from an exception of the handler.
error_content(kind, message) == <<"Error: ", kind, ": ", message>>

\* execute_tool_call returns for the current call: its message joins the
\* results of this response and the next call is taken up.
Returned(pr, content) ==
    [pr EXCEPT !.results = Append(@, tool_result(pr, content)),
               !.idx = @ + 1, !.stage = "call", !.effects = <<>>]

\* The content execute_tool_call forms from an IsADirectoryError.
directory_hint(path) ==
    <<"Error: '", path, "' is a directory, not a file. Use bash('ls ", path,
      "') to list its contents.">>

\* execute_tool_call whose handler raises: the exception becomes the content
\* of the call's tool result.
handler_raised_aborts(pr, content) == Raised(pr)

handler_raised(pr, content) == Returned(pr, content)

\* The names under which tools.py registers its tools.
ToolRegistry ==
    {"read_file", "write_file", "bash", "bootstrap", "rollback", "execute_contracts",
     "web_search"}

NoTool == "<None>"

\* tools.execute_tool looking the name up: the handler registered under it,
\* or None.
registry_get_with_default(name) ==
    IF name \in ToolRegistry THEN name ELSE "write_file"

registry_get(name) == IF name \in ToolRegistry THEN name ELSE NoTool

\* tools.execute_tool for the calls that return: write_file on COMMS.md,
\* read_file on a missing path and on a directory, and a name without tool.
ToolCall(p) ==
    /\ procs[p].image = "runner" /\ procs[p].pc = "tools"
    /\ procs[p].idx <= Len(procs[p].calls)
    /\ registry_get(CurrentCall(p).name) \in {NoTool, "write_file", "read_file"}
    /\ CurrentCall(p).arg # BadJson
    /\ LET c == CurrentCall(p)
           tool == registry_get(c.name)
       IN  IF tool = NoTool
           THEN /\ comms' = comms
                /\ procs' = [procs EXCEPT ![p] =
                       handler_raised(@, error_content("ValueError", "Unknown tool"))]
           ELSE IF tool = "write_file"
           THEN /\ comms' = [comms EXCEPT ![procs[p].cwd] = <<"reply">>]
                /\ procs' = [procs EXCEPT ![p] = Returned(@, <<"Successfully wrote">>)]
           ELSE /\ comms' = comms
                /\ procs' = [procs EXCEPT ![p] =
                       IF c.arg = "src"
                       THEN handler_raised(@, directory_hint(c.arg))
                       ELSE handler_raised(@, error_content("FileNotFoundError",
                                                            "File not found"))]
    /\ UNCHANGED <<now, crash_times, high_cpu_start, ticks, iter, marker, dirs,
                   errors_log, bootstrap_log, contracts>>

\* execute_tool_call that parses the arguments inside its try block: the
\* JSONDecodeError becomes the content of the call's tool result.
ToolArgsError_becomes_result(p) ==
    /\ procs[p].image = "runner" /\ procs[p].pc = "tools"
    /\ procs[p].idx <= Len(procs[p].calls)
    /\ CurrentCall(p).arg = BadJson
    /\ procs' = [procs EXCEPT ![p] =
                   Returned(@, error_content("JSONDecodeError", "Expecting property name"))]
    /\ UNCHANGED <<now, crash_times, high_cpu_start, ticks, iter, marker, dirs, comms,
                   errors_log, bootstrap_log, contracts>>

\* execute_tool_call on a call whose argument string is not JSON: json.loads
\* raises before the try block, and the exception leaves process_tool_calls
\* and run_single_iteration for the handler of Runner.run, which logs it.
ToolArgsError(p) ==
    /\ procs[p].image = "runner" /\ procs[p].pc = "tools"
    /\ procs[p].idx <= Len(procs[p].calls)
    /\ CurrentCall(p).arg = BadJson
    /\ procs' = [procs EXCEPT ![p] =
                   [Raised(@) EXCEPT !.said = "LLM loop error: JSONDecodeError"]]
    /\ UNCHANGED <<now, crash_times, high_cpu_start, ticks, iter, marker, dirs, comms,
                   errors_log, bootstrap_log, contracts>>

\* The working copy a branch directory path names.
dir_branch(dir) == dir[2]

\* tools.touch_bootstrap: the marker's mtime after the touch at time t.
touch_bootstrap(t) == t

\* clone_or_update_branch whose git commands run unchecked: a failure leaves
\* the working copies as they are and raises nothing.
clone_or_update_branch_unchecked(branch, target_dir, ok) ==
    IF ok
    THEN [raised |-> "",
          dirs |-> dirs \cup {dir_branch(target_dir)},
          comms |-> [comms EXCEPT ![dir_branch(target_dir)] = OriginComms]]
    ELSE [raised |-> "", dirs |-> dirs, comms |-> comms]

\* tools.clone_or_update_branch: the exception it raises ("" for none) and the
\* working copies after it.
clone_or_update_branch(branch, target_dir, ok) ==
    IF ok
    THEN [raised |-> "",
          dirs |-> dirs \cup {dir_branch(target_dir)},
          comms |-> [comms EXCEPT ![dir_branch(target_dir)] = OriginComms]]
    ELSE [raised |-> "CalledProcessError", dirs |-> dirs, comms |-> comms]

\* exec_bootstrap starting the target's runner.py itself.
exec_bootstrap_runs_runner(target_dir) ==
    NewRunner(<<<<"python">>, runner_path_of(target_dir)>>, dir_branch(target_dir))

\* tools.exec_bootstrap: the process after os.chdir and os.execv.  The pid is
\* the slot; the Runner object and everything it held are gone.
exec_bootstrap(target_dir) ==
    LET bootstrap_path == target_dir \o <<"/", "bootstrap.sh">>
    IN  [NoProc EXCEPT !.image = "bootstrap_sh",
                       !.cmdline = <<<<"/bin/bash">>, bootstrap_path>>,
                       !.cwd = dir_branch(target_dir)]

Effect(op, branch, dir) == [op |-> op, branch |-> branch, dir |-> dir]

\* bootstrap / rollback without their first statement.
TouchStep_without_touch(p) ==
    /\ procs[p].stage = "call"
    /\ procs' = [procs EXCEPT ![p].stage = "clone"]
    /\ UNCHANGED <<now, crash_times, high_cpu_start, ticks, iter, marker, dirs, comms,
                   errors_log, bootstrap_log, contracts>>

\* First statement of bootstrap and of rollback: touch_bootstrap().
TouchStep(p) ==
    /\ procs[p].stage = "call"
    /\ marker' = touch_bootstrap(now)
    /\ procs' = [procs EXCEPT ![p].stage = "clone",
                              ![p].effects = Append(@, Effect("touch", "", <<>>))]
    /\ UNCHANGED <<now, crash_times, high_cpu_start, ticks, iter, dirs, comms,
                   errors_log, bootstrap_log, contracts>>

\* Second statement: clone_or_update_branch(branch, target_dir).  When it
\* raises, execute_tool_call turns the exception into the tool result.
CloneStep(p, branch, target_dir) ==
    /\ procs[p].stage = "clone"
    /\ \E ok \in BOOLEAN :
         LET r == clone_or_update_branch(branch, target_dir, ok)
         IN  /\ dirs' = r.dirs
             /\ comms' = r.comms
             /\ procs' = IF r.raised = ""
                         THEN [procs EXCEPT ![p].stage = "exec",
                                 ![p].effects = Append(@, Effect("clone", branch, target_dir))]
                         ELSE [procs EXCEPT ![p] =
                                 Returned(@, error_content(r.raised, "git"))]
    /\ UNCHANGED <<now, crash_times, high_cpu_start, ticks, iter, marker,
                   errors_log, bootstrap_log, contracts>>

\* exec_bootstrap running the entry point as a child and returning.
ExecStep_returns(p, target_dir) ==
    /\ procs[p].stage = "exec"
    /\ procs' = [procs EXCEPT ![p] = Returned(@, <<"Tool executed successfully">>)]
    /\ UNCHANGED <<now, crash_times, high_cpu_start, ticks, iter, marker, dirs, comms,
                   errors_log, bootstrap_log, contracts>>

\* Third statement: exec_bootstrap(target_dir).
ExecStep(p, target_dir) ==
    /\ procs[p].stage = "exec"
    /\ procs' = [procs EXCEPT ![p] = exec_bootstrap(target_dir)]
    /\ UNCHANGED <<now, crash_times, high_cpu_start, ticks, iter, marker, dirs, comms,
                   errors_log, bootstrap_log, contracts>>

\* tools.bootstrap(branch)
bootstrap(p, branch) ==
    \/ TouchStep(p)
    \/ CloneStep(p, branch, get_branch_dir(branch))
    \/ ExecStep(p, get_branch_dir(branch))

\* rollback updating the working copy of the branch the Runner runs from.
rollback_to_current_branch(p) ==
    \/ TouchStep(p)
    \/ CloneStep(p, procs[p].cwd, get_branch_dir(procs[p].cwd))
    \/ ExecStep(p, get_branch_dir(procs[p].cwd))

\* tools.rollback()
rollback(p) ==
    \/ TouchStep(p)
    \/ CloneStep(p, "main", get_branch_dir("main"))
    \/ ExecStep(p, get_branch_dir("main"))

ToolsDone_results_first(p) ==
    /\ procs[p].image = "runner" /\ procs[p].pc = "tools"
    /\ procs[p].idx > Len(procs[p].calls)
    /\ procs' = [procs EXCEPT
                   ![p].messages = @ \o procs[p].results
                                     \o <<[role |-> "assistant",
                                           content |-> procs[p].calls]>>,
                   ![p].requests = @ + 1,
                   ![p].pc = "chat", ![p].calls = <<>>, ![p].idx = 0,
                   ![p].results = <<>>, ![p].stage = "none"]
    /\ UNCHANGED <<now, crash_times, high_cpu_start, ticks, iter, marker, dirs, comms,
                   errors_log, bootstrap_log, contracts>>

\* process_tool_calls after the calls of a response: the assistant message and
\* the results are appended and the next chat-completion request is issued.
ToolsDone(p) ==
    /\ procs[p].image = "runner" /\ procs[p].pc = "tools"
    /\ procs[p].idx > Len(procs[p].calls)
    /\ procs' = [procs EXCEPT
                   ![p].messages = @ \o <<[role |-> "assistant",
                                           content |-> procs[p].calls]>>
                                     \o procs[p].results,
                   ![p].requests = @ + 1,
                   ![p].pc = "chat", ![p].calls = <<>>, ![p].idx = 0,
                   ![p].results = <<>>, ![p].stage = "none"]
    /\ UNCHANGED <<now, crash_times, high_cpu_start, ticks, iter, marker, dirs, comms,
                   errors_log, bootstrap_log, contracts>>

----------------------------------------------------------------------------
(* Processes come and go *)

\* A process ends on its own: the Runner crashes or is killed from outside,
\* bootstrap.sh fails.
ProcessExit(p) ==
    /\ procs[p].image # "none"
    /\ procs' = [procs EXCEPT ![p] = NoProc]
    /\ UNCHANGED <<now, crash_times, high_cpu_start, ticks, iter, marker, dirs, comms,
                   errors_log, bootstrap_log, contracts>>

\* bootstrap.sh of a working copy reaches its last step and starts that
\* copy's runner.py in its own process.
BootstrapShLaunchesRunner(p) ==
    /\ procs[p].image = "bootstrap_sh"
    /\ procs' = [procs EXCEPT ![p] =
                   NewRunner(<<<<"python">>, runner_path_of(get_branch_dir(procs[p].cwd))>>,
                             procs[p].cwd)]
    /\ UNCHANGED <<now, crash_times, high_cpu_start, ticks, iter, marker, dirs, comms,
                   errors_log, bootstrap_log, contracts>>

\* The Runner's stderr grows errors.log of its working copy.
NextSize(size) == IF size = None \/ size < LOG_SIZE_LIMIT THEN LOG_SIZE_LIMIT
                  ELSE LOG_SIZE_LIMIT + 1

WriteStderr(p) ==
    /\ procs[p].image = "runner" /\ procs[p].pc # "start"
    /\ errors_log[procs[p].cwd] # LOG_SIZE_LIMIT + 1
    /\ errors_log' = [errors_log EXCEPT ![procs[p].cwd] = NextSize(@)]
    /\ UNCHANGED <<now, crash_times, high_cpu_start, ticks, iter, procs, marker, dirs,
                   comms, bootstrap_log, contracts>>

----------------------------------------------------------------------------
(* Contracts: contracts.py behind the execute_contracts tool *)

\* contracts/ holds the files 001.md .. 00<MaxContracts>.md; a file is named
\* by its number, and sorted() is the order of the numbers.
ContractNames == 1..MaxContracts

\* A contract text is its lines, a line the pieces it is made of.
Whitespace == {" "}
Heading == <<"# Fix the widget">>
StatusLines == {<<"pending">>, <<"pending", " ">>, <<" ", "pending">>, <<"completed">>}
ContractTexts == {<<Heading, <<"## Status">>, st>> : st \in StatusLines}
NoContract == <<<<"<no file>">>>>

\* A line that ^pending\s*$ matches.
PendingLine(line) ==
    /\ line # <<>> /\ line[1] = "pending"
    /\ \A j \in 2..Len(line) : line[j] \in Whitespace

\* Contracts._is_pending
is_pending(text) == \E i \in DOMAIN text : PendingLine(text[i])

\* A scan that takes every contract file, whatever its status.
find_pending_any_status(files) ==
    SelectSeq([n \in ContractNames |-> n], LAMBDA n : files[n] # NoContract)

\* Contracts._find_pending over the files of contracts/
find_pending(files) ==
    SelectSeq([n \in ContractNames |-> n],
              LAMBDA n : files[n] # NoContract /\ is_pending(files[n]))

\* contracts/ and contracts_completed/ are empty and no batch has run.
NoBatch == [n |-> 0, pending |-> <<>>, ran |-> <<>>]
NoContracts ==
    [files |-> [n \in ContractNames |-> NoContract],
     completed |-> [n \in ContractNames |-> NoContract],
     batch |-> NoBatch]

\* What run_agent does for a contract: it returns or raises, and on its way
\* the sub-agent rewrites the status line of the contract files in `edits`.
AgentOutcomes == [raises : BOOLEAN, edits : {{}, ContractNames}]

rewrite_status(text) ==
    [i \in DOMAIN text |-> IF PendingLine(text[i]) THEN <<"completed">> ELSE text[i]]

agent_edits(files, edits) ==
    [n \in ContractNames |->
       IF n \in edits /\ files[n] # NoContract THEN rewrite_status(files[n])
       ELSE files[n]]

\* Contracts.execute on the contract `name`, the sub-agent doing `o`: the
\* directories, the size of logs/errors.log and the result string after it.
execute(C, name, o) ==
    LET files == agent_edits(C.files, o.edits)
    IN  IF ~o.raises
        THEN [C EXCEPT !.files = [files EXCEPT ![name] = NoContract],
                       !.completed = [@ EXCEPT ![name] = files[name]],
                       !.results = Append(@, "completed"),
                       !.ran = Append(@, [name |-> name, raised |-> FALSE])]
        ELSE [C EXCEPT !.files = files,
                       !.errors = NextSize(@),
                       !.results = Append(@, "failed"),
                       !.ran = Append(@, [name |-> name, raised |-> TRUE])]

RECURSIVE execute_each(_, _, _)
execute_each(C, pending, agent) ==
    IF pending = <<>> THEN C
    ELSE execute_each(execute(C, Head(pending), agent[Head(pending)]),
                      Tail(pending), agent)

\* Contracts.execute_all
execute_all(C, agent) ==
    LET pending == find_pending(C.files)
        done == execute_each(C, pending, agent)
    IN  IF pending = <<>>
        THEN [done EXCEPT !.summary = <<"No pending contracts found.">>]
        ELSE [done EXCEPT !.summary = <<"Executed", Len(done.results)>> \o done.results]

\* The execute_contracts tool, called by a Runner whose working copy is main.
ExecuteContracts(p) ==
    /\ InCall(p, {"execute_contracts"})
    /\ procs[p].cwd = "main"
    /\ \E agent \in [ContractNames -> AgentOutcomes] :
         \E done \in {execute_all([files |-> contracts.files,
                                   completed |-> contracts.completed,
                                   errors |-> errors_log["main"],
                                   results |-> <<>>, ran |-> <<>>,
                                   summary |-> <<>>], agent)} :
           /\ contracts' = [files |-> done.files, completed |-> done.completed,
                            batch |-> [n |-> contracts.batch.n + 1,
                                       pending |-> find_pending(contracts.files),
                                       ran |-> done.ran]]
           /\ errors_log' = [errors_log EXCEPT !["main"] = done.errors]
           /\ procs' = [procs EXCEPT ![p] = Returned(@, done.summary)]
    /\ UNCHANGED <<now, crash_times, high_cpu_start, ticks, iter, marker, dirs, comms,
                   bootstrap_log>>

----------------------------------------------------------------------------
(* The system *)

STARTUP_DELAY == 5

\* The Watcher has been constructed and has slept its start-up delay, the
\* clock reads t.  The
\* launcher that started it, <main>/bootstrap.sh, has not started the Runner
\* yet.  The launcher was started by hand (no marker) or by an upgrade to main,
\* which touched the marker before its exec.
WatcherStartedAt(t, blog) ==
    /\ now = t
    /\ crash_times = <<>>
    /\ high_cpu_start = None
    /\ ticks = 0
    /\ iter = [at |-> 0, found |-> 0, error |-> "None", log |-> <<>>, slept |-> <<>>,
               signals |-> <<>>, spawned |-> 0, crashes |-> 0, launches |-> <<>>,
               input |-> Inputs([cpu |-> 0, gone |-> FALSE], Calm)]
    /\ procs = [p \in Pids |-> IF p = 1 THEN exec_bootstrap(main_dir) ELSE NoProc]
    /\ marker \in {None, 0}
    /\ dirs = {"main"}
    /\ comms = [b \in Branches |-> IF b = "main" THEN OriginComms ELSE NoFile]
    /\ errors_log = [b \in Branches |-> None]
    /\ bootstrap_log = blog

WatcherStartedWith(blog) == WatcherStartedAt(STARTUP_DELAY, blog)

\* No Runner has written bootstrap.log yet.
WatcherStarted == WatcherStartedWith(NoFile)

\* The working copy of main holds no contract.
Init == WatcherStarted /\ contracts = NoContracts

\* What the environment answers the Watcher where only the process life cycle
\* is followed: steady CPU below the threshold.
SteadyAnswer ==
    [cpu |-> {CPU_THRESHOLD - 1}, gone |-> {FALSE}, exits |-> BOOLEAN,
     script |-> BOOLEAN, sync_ok |-> {TRUE}, write_ok |-> BOOLEAN,
     survives |-> {TRUE}]

\* The Watcher and the life cycle of the Runner: start, cycles in which the
\* first response of the model may ask for an upgrade, and exits.
Next ==
    \/ MonitorIteration(SteadyAnswer, MaxTicks)
    \/ \E p \in Pids : RunnerStart(p)
    \/ \E p \in Pids : RunSingleIteration(p)
    \/ \E p \in Pids :
         ChatResponse(p, IF procs[p].requests = 1 THEN UpgradeCalls ELSE {}, 1)
    \/ \E p \in Pids : InCall(p, {"bootstrap"}) /\ bootstrap(p, CurrentCall(p).arg)
    \/ \E p \in Pids : InCall(p, {"rollback"}) /\ rollback(p)
    \/ \E p \in Pids : ToolsDone(p)
    \/ \E p \in Pids : SleepDone(p)
    \/ \E p \in Pids : ProcessExit(p)
    \/ \E p \in Pids : BootstrapShLaunchesRunner(p)

Spec == Init /\ [][Next]_vars

\* A Runner alone: every tool and several calls in the first response of a
\* cycle, calls that return in the later ones.
NextRunner ==
    \/ \E p \in Pids : RunnerStart(p)
    \/ \E p \in Pids : RunSingleIteration(p)
    \/ \E p \in Pids :
         ChatResponse(p, IF procs[p].requests = 1 THEN ToolCalls ELSE LoopCalls, MaxCalls)
    \/ \E p \in Pids : ToolCall(p)
    \/ \E p \in Pids : InCall(p, {"bootstrap"}) /\ bootstrap(p, CurrentCall(p).arg)
    \/ \E p \in Pids : InCall(p, {"rollback"}) /\ rollback(p)
    \/ \E p \in Pids : ToolsDone(p)
    \/ \E p \in Pids : SleepDone(p)
    \/ \E p \in Pids : ProcessExit(p)
    \/ \E p \in Pids : BootstrapShLaunchesRunner(p)

SpecRunner == Init /\ [][NextRunner]_vars

\* The Watcher through the crash window: main is broken, so that the Runners
\* the Watcher launches crash at once; the Runner the launcher starts idles,
\* floods its error log or exits.
BudgetAnswer ==
    [cpu |-> {CPU_THRESHOLD - 1}, gone |-> {FALSE}, exits |-> {TRUE},
     script |-> BOOLEAN, sync_ok |-> {TRUE}, write_ok |-> BOOLEAN,
     survives |-> {FALSE}]

NextBudget ==
    \/ MonitorIteration(BudgetAnswer, MaxLongTicks)
    \/ \E p \in Pids : RunnerStart(p)
    \/ \E p \in Pids : ProcessExit(p)
    \/ \E p \in Pids : BootstrapShLaunchesRunner(p)
    \/ \E p \in Pids : WriteStderr(p)

SpecBudget == Init /\ [][NextBudget]_vars

\* The Watcher over the Runner the launcher started: CPU samples on either
\* side of the threshold, a process that vanishes during the check, an error
\* log that grows, a Runner that ignores SIGTERM.  The Runners the Watcher
\* launches crash at once.
HealthAnswer ==
    [cpu |-> {CPU_THRESHOLD - 1, CPU_THRESHOLD}, gone |-> BOOLEAN, exits |-> BOOLEAN,
     script |-> {TRUE}, sync_ok |-> {TRUE}, write_ok |-> {TRUE},
     survives |-> {FALSE}]

NextHealth ==
    \/ MonitorIteration(HealthAnswer, MaxHealthTicks)
    \/ \E p \in Pids : RunnerStart(p)
    \/ \E p \in Pids : BootstrapShLaunchesRunner(p)
    \/ \E p \in Pids : WriteStderr(p)

SpecHealth == Init /\ [][NextHealth]_vars

\* A Runner at its cycles, the clock following its sleeps: pulls that change
\* COMMS.md, requests and cycles that raise, a missing API key, SIGINT.  Only
\* the first response of a cycle carries tool calls.
NextCycle ==
    \/ \E p \in Pids : BootstrapShLaunchesRunner(p)
    \/ \E p \in Pids : ApiKeyUnset(p)
    \/ \E p \in Pids : RunnerStart(p)
    \/ \E p \in Pids : \E pulled \in PullOutcomes(comms[procs[p].cwd]) :
          RunSingleIterationAfterPull(p, pulled)
    \/ \E p \in Pids :
          ChatResponse(p, IF procs[p].requests = 1 THEN CycleCalls ELSE {}, MaxCalls)
    \/ \E p \in Pids : ToolCall(p)
    \/ \E p \in Pids : ToolArgsError(p)
    \/ \E p \in Pids : ToolsDone(p)
    \/ \E p \in Pids : CycleRaises(p)
    \/ \E p \in Pids : SleepUntilNextInterval(p)
    \/ \E p \in Pids : RetryDelay(p)
    \/ \E p \in Pids : KeyboardInterrupt(p)

SpecCycle == Init /\ [][NextCycle]_vars

\* The working copy of main holds contract files of every status.
InitContracts ==
    /\ WatcherStarted
    /\ contracts \in {[NoContracts EXCEPT !.files = f] :
                        f \in [ContractNames -> ContractTexts \cup {NoContract}]}

ContractCalls == {[name |-> "execute_contracts", arg |-> ""]}

\* A Runner whose model asks for execute_contracts.
NextContracts ==
    \/ \E p \in Pids : BootstrapShLaunchesRunner(p)
    \/ \E p \in Pids : RunnerStart(p)
    \/ \E p \in Pids : RunSingleIteration(p)
    \/ \E p \in Pids : ChatResponse(p, ContractCalls, 1)
    \/ \E p \in Pids : ExecuteContracts(p)
    \/ \E p \in Pids : ToolsDone(p)

SpecContracts == InitContracts /\ [][NextContracts]_vars

\* What the environment answers the Watcher beside a Runner that writes
\* COMMS.md: the Runner is calm; the runner script may be missing and the
\* fetch of launch_runner may fail.
SyncAnswer ==
    [cpu |-> {CPU_THRESHOLD - 1}, gone |-> {FALSE}, exits |-> {TRUE},
     script |-> BOOLEAN, sync_ok |-> BOOLEAN, write_ok |-> {TRUE},
     survives |-> {TRUE}]

ReplyCalls == {[name |-> "write_file", arg |-> "COMMS.md"]}

\* The Watcher beside a Runner on main that writes its reply to COMMS.md
\* and may exit.
NextSync ==
    \/ MonitorIteration(SyncAnswer, MaxTicks)
    \/ \E p \in Pids : BootstrapShLaunchesRunner(p)
    \/ \E p \in Pids : RunnerStart(p)
    \/ \E p \in Pids : RunSingleIteration(p)
    \/ \E p \in Pids : ChatResponse(p, ReplyCalls, 1)
    \/ \E p \in Pids : ToolCall(p)
    \/ \E p \in Pids : ToolsDone(p)
    \/ \E p \in Pids : ProcessExit(p)

SpecSync == Init /\ [][NextSync]_vars

\* A Runner whose model keeps answering with tool calls, response after
\* response, or stops.
NextLoop ==
    \/ \E p \in Pids : BootstrapShLaunchesRunner(p)
    \/ \E p \in Pids : RunnerStart(p)
    \/ \E p \in Pids : RunSingleIteration(p)
    \/ \E p \in Pids : ChatResponseWithin(p, LoopCalls, MaxCalls, MaxLoopRequests)
    \/ \E p \in Pids : ToolCall(p)
    \/ \E p \in Pids : ToolsDone(p)

SpecLoop == Init /\ [][NextLoop]_vars

\* bootstrap.log as earlier runs may have left it: missing, empty, or up to
\* MaxLogLines lines of starts that succeeded, failed or were cut short.
BootstrapLogs ==
    {NoFile} \cup SeqsUpTo({"BOOTSTRAPPING", "SUCCESS", "FAILED"}, MaxLogLines)

InitLogs == (\E blog \in BootstrapLogs : WatcherStartedWith(blog)) /\ contracts = NoContracts

\* The Watcher over a log of earlier bootstraps, the Runners coming and
\* going.
NextLogs ==
    \/ MonitorIteration(SteadyAnswer, MaxTicks)
    \/ \E p \in Pids : BootstrapShLaunchesRunner(p)
    \/ \E p \in Pids : RunnerStart(p)
    \/ \E p \in Pids : ProcessExit(p)

SpecLogs == InitLogs /\ [][NextLogs]_vars

\* A Runner at its sleeps: the system is started at any minute of the hour,
\* at its first or its last second, the environment sets
\* WORK_INTERVAL_MINUTES to one of Intervals, and the cycles take no time.
Intervals == {1, 7, 10, 15}

StartTimes == {60 * m + sec : m \in 0..MaxStartMinute, sec \in {0, 59}}

InitInterval == (\E t \in StartTimes : WatcherStartedAt(t, NoFile)) /\ contracts = NoContracts

NextInterval ==
    \/ \E p \in Pids : BootstrapShLaunchesRunner(p)
    \/ \E p \in Pids : \E W \in Intervals : WorkIntervalConfigured(p, W)
    \/ \E p \in Pids : RunnerStart(p)
    \/ \E p \in Pids : RunSingleIteration(p)
    \/ \E p \in Pids : ChatResponse(p, {}, MaxCalls)
    \/ \E p \in Pids : SleepUntilNextIntervalWithin(p, MaxIntervalClock)

SpecInterval == InitInterval /\ [][NextInterval]_vars

\* The Watcher past the crash window: the Runners it launches crash at once
\* or stay, and a Runner that stays is healthy for periods of QuietTicks polls
\* or floods its error log.
WindowAnswer ==
    [cpu |-> {CPU_THRESHOLD - 1}, gone |-> {FALSE}, exits |-> {TRUE},
     script |-> {TRUE}, sync_ok |-> {TRUE}, write_ok |-> {TRUE},
     survives |-> BOOLEAN]

NextWindow ==
    \/ MonitorIteration(WindowAnswer, MaxWindowTicks)
    \/ MonitorIterations(QuietTicks, MaxWindowTicks)
    \/ \E p \in Pids : RunnerStart(p)
    \/ \E p \in Pids : BootstrapShLaunchesRunner(p)
    \/ \E p \in Pids : WriteStderr(p)

SpecWindow == Init /\ [][NextWindow]_vars


----------------------------------------------------------------------------
(* Claims *)

Runners == {p \in Pids : procs[p].image = "runner"}

\* A monitor_iteration that finds no Runner process.
MissingRunnerTick == ticks' = ticks + 1 /\ find_runner_process(procs) = 0

\* os.execv of a bootstrap or rollback call replaces the image of process p.
ExecReplaces(p) ==
    /\ procs[p].image = "runner" /\ procs[p].stage = "exec"
    /\ procs'[p] # procs[p] /\ procs'[p].image # "none"

\* The branch whose working copy the current call of process p upgrades to.
TargetBranch(p) ==
    IF CurrentCall(p).name = "rollback" THEN "main" ELSE CurrentCall(p).arg

\* C1: at every moment of every interleaving of Watcher iterations with the
\* Runner's life cycle at most one Runner process exists.
AtMostOneRunner == Cardinality(Runners) <= 1

\* C2: a monitor_iteration that finds no Runner while the bootstrap marker
\* exists and is younger than BOOTSTRAP_GRACE_SECONDS records no crash and
\* launches no Runner.
GraceSuppressesCrash ==
    [][(MissingRunnerTick /\ is_bootstrap_in_progress(marker, now))
          => (crash_times' = crash_times /\ iter'.spawned = 0)]_vars

\* C3: a monitor_iteration that finds no Runner while the bootstrap marker is
\* absent or at least BOOTSTRAP_GRACE_SECONDS old runs crash-and-restart in
\* that iteration: the crash is recorded at the time of the iteration, and the
\* Watcher goes on to launch_runner or to the crash-limit handling.
MissingRunnerRestarts ==
    [][(MissingRunnerTick /\ ~is_bootstrap_in_progress(marker, now))
          => /\ iter'.crashes = 1
             /\ crash_times' # <<>> /\ crash_times'[Len(crash_times')] = now
             /\ \/ Contains(iter'.log, "Launching runner from main...")
                \/ Contains(iter'.log, "Crash limit reached. Stopping restart attempts.")]_vars

\* C3 happens: the last iteration found no Runner, the marker was more than
\* the grace period old, and the crash was recorded.
StaleMarkerCrashRecorded ==
    /\ ticks > 0 /\ iter.found = 0 /\ iter.crashes = 1
    /\ marker # None /\ iter.at - marker >= BOOTSTRAP_GRACE_SECONDS

\* C4 as stated: the image that replaces the Runner in a successful bootstrap
\* keeps the pid and has a command line that satisfies the Runner
\* discriminator.
ReplacedImageIsRunner ==
    [][\A p \in Pids : ExecReplaces(p) => is_runner_cmdline(procs'[p].cmdline)]_vars

\* C4 amended: the replaced image keeps the pid and runs /bin/bash
\* <T>/bootstrap.sh with T, the target's working copy, as working directory;
\* this command line does not satisfy the Runner discriminator, so that a
\* find of the Watcher does not return the process while the entry point
\* itself is running.
ReplacedImageIsEntryPoint ==
    [][\A p \in Pids :
         ExecReplaces(p) =>
             /\ procs'[p].cmdline =
                   <<<<"/bin/bash">>,
                     get_branch_dir(TargetBranch(p)) \o <<"/", "bootstrap.sh">>>>
             /\ procs'[p].cwd = TargetBranch(p)
             /\ ~is_runner_cmdline(procs'[p].cmdline)
             /\ find_runner_process(procs') # p]_vars

\* C4 happens: after an upgrade to feat the Watcher's iteration found no
\* Runner while the replaced image was running.
UpgradeObservedAsMissing ==
    /\ ticks > 0 /\ iter.found = 0 /\ marker # None /\ marker <= iter.at
    /\ \E p \in Pids : procs[p].image = "bootstrap_sh" /\ procs[p].cwd = "feat"

\* C5: in every bootstrap or rollback call the marker has been touched, in
\* that call, when the clone/update step starts and when the image is
\* replaced.
TouchedBeforeCloneAndExec ==
    \A p \in Pids :
        procs[p].stage \in {"clone", "exec"} =>
            /\ marker # None
            /\ procs[p].effects # <<>>
            /\ procs[p].effects[1] = Effect("touch", "", <<>>)

\* C5 happens: a call has touched the marker, updated the working copy and
\* is about to replace the image.
AboutToExec ==
    \E p \in Pids : procs[p].stage = "exec" /\ Len(procs[p].effects) = 2
                     /\ marker # None

\* A step of process p that leaves it the Runner image it was and keeps the
\* current call open: no tool result, no request, no hash update.
CallStaysOpen(p) ==
    /\ procs'[p].results = procs[p].results
    /\ procs'[p].idx = procs[p].idx
    /\ procs'[p].requests = procs[p].requests
    /\ procs'[p].last_comms_hash = procs[p].last_comms_hash
    /\ procs'[p].pc = "tools"

\* C6 as stated: once bootstrap or rollback is dispatched, the calling image
\* forms no tool result for the call, issues no chat-completion request and
\* does not update last_comms_hash.
UpgradeNeverReturns ==
    [][\A p \in Pids :
         (InCall(p, {"bootstrap", "rollback"}) /\ procs'[p].image = "runner")
             => CallStaysOpen(p)]_vars

\* C6 amended: bootstrap and rollback return to their caller only through an
\* exception of the clone/update step, which becomes the tool result
\* "Error: CalledProcessError: ..."; once clone/update has succeeded the
\* calling image forms no tool result, issues no request and does not update
\* last_comms_hash.
UpgradeReturnsOnlyByException ==
    [][\A p \in Pids :
         (InCall(p, {"bootstrap", "rollback"}) /\ procs'[p].image = "runner")
             => \/ CallStaysOpen(p)
                \/ /\ procs[p].stage = "clone"
                   /\ procs'[p].results =
                        Append(procs[p].results,
                               tool_result(procs[p],
                                           error_content("CalledProcessError", "git")))
                   /\ procs'[p].requests = procs[p].requests
                   /\ procs'[p].last_comms_hash = procs[p].last_comms_hash]_vars

\* C6 happens: a bootstrap("feat") call was the second call of a response and
\* replaced the image; the result of the first call died with it.
UpgradeReplacedCaller ==
    \E p \in Pids : /\ procs[p].image = "bootstrap_sh" /\ procs[p].cwd = "feat"
                     /\ comms["feat"] = OriginComms /\ comms["main"] = <<"reply">>

\* C7: a step of a rollback() call is a step of bootstrap("main") and the
\* other way round; when the image is about to be replaced, both have touched
\* the marker and updated main's working copy, in this order.
RollbackIsBootstrapMain ==
    [][\A p \in Pids :
         /\ InCall(p, {"rollback"}) => (rollback(p) <=> bootstrap(p, "main"))
         /\ (InCall(p, {"bootstrap", "rollback"}) /\ TargetBranch(p) = "main"
               /\ ExecReplaces(p))
              => /\ procs[p].effects = <<Effect("touch", "", <<>>),
                                         Effect("clone", "main", main_dir)>>
                 /\ procs'[p] = exec_bootstrap(main_dir)]_vars

\* C7 happens: a Runner of the working copy of feat is about to replace its
\* image in a rollback() call.
RollbackFromBranch ==
    \E p \in Pids : /\ InCall(p, {"rollback"}) /\ procs[p].stage = "exec"
                     /\ procs[p].cwd = "feat"

\* A monitor_iteration that records a crash.
CrashTick == ticks' = ticks + 1 /\ iter'.crashes = 1

Alerted(content) ==
    (IF content = NoFile THEN <<>> ELSE content) \o <<"WATCHER ALERT">>

\* C8 as stated: when the crash recorded brings the records in the window to
\* CRASH_LIMIT or more, the iteration appends a WATCHER ALERT block to
\* <main>/COMMS.md, launches no Runner and sleeps POST_CRASH_LIMIT_DELAY.
CrashLimitAlerts ==
    [][(CrashTick /\ Len(crash_times') >= CRASH_LIMIT)
          => /\ comms'["main"] = Alerted(comms["main"])
             /\ iter'.spawned = 0
             /\ iter'.slept = <<POST_CRASH_LIMIT_DELAY, CHECK_INTERVAL>>]_vars

\* C8 amended: at the crash limit the iteration launches no Runner and sleeps
\* POST_CRASH_LIMIT_DELAY; it appends the WATCHER ALERT block to
\* <main>/COMMS.md when the file can be read and written, and otherwise logs
\* "Failed to alert PM" and leaves the file as it was.
CrashLimitAlertsWhenWritable ==
    [][(CrashTick /\ Len(crash_times') >= CRASH_LIMIT)
          => /\ iter'.spawned = 0
             /\ iter'.slept = <<POST_CRASH_LIMIT_DELAY, CHECK_INTERVAL>>
             /\ iter'.input.write_ok => comms'["main"] = Alerted(comms["main"])
             /\ ~iter'.input.write_ok =>
                   /\ comms'["main"] = comms["main"]
                   /\ Contains(iter'.log, "Failed to alert PM")]_vars

\* C8 happens: an unhealthy Runner was terminated, the crash was the fifth in
\* the window and the alert is in COMMS.md.
LimitReachedByUnhealthyRunner ==
    /\ ticks > 0 /\ iter.crashes = 1 /\ iter.found # 0
    /\ Len(crash_times) >= CRASH_LIMIT
    /\ Contains(comms["main"], "WATCHER ALERT")

\* C9 as stated: after every monitor_iteration, crash or no crash, every
\* entry of crash_times is younger than CRASH_WINDOW_SECONDS at the time the
\* iteration began.
WindowAtEveryTick ==
    ticks > 0 =>
        \A i \in DOMAIN crash_times :
            crash_times[i] > iter.at - CRASH_WINDOW_SECONDS

\* C9 amended: after a monitor_iteration that recorded a crash, every entry of
\* crash_times is younger than CRASH_WINDOW_SECONDS at the time of that crash,
\* the last entry; an iteration that records no crash leaves crash_times as
\* it was, whatever the age of its entries.
WindowAtEveryCrash ==
    [][ticks' = ticks + 1
          => IF iter'.crashes = 1
             THEN /\ crash_times' # <<>>
                  /\ crash_times'[Len(crash_times')] \in iter'.at .. now'
                  /\ \A i \in DOMAIN crash_times' :
                        crash_times'[i] > crash_times'[Len(crash_times')]
                                            - CRASH_WINDOW_SECONDS
                  /\ \A i \in DOMAIN crash_times :
                        crash_times[i] > crash_times'[Len(crash_times')]
                                            - CRASH_WINDOW_SECONDS
                          => Contains(crash_times', crash_times[i])
             ELSE crash_times' = crash_times]_vars

\* C9 happens: a crash was recorded more than a window after the first
\* iteration, and the crashes of the first minute are gone.
OldCrashesEvicted ==
    /\ ticks > 0 /\ iter.crashes = 1
    /\ iter.at > STARTUP_DELAY + CRASH_WINDOW_SECONDS
    /\ crash_times[1] > STARTUP_DELAY + BOOTSTRAP_GRACE_SECONDS

\* C10 as stated: an iteration that records a crash and stays below the limit
\* launches a Runner and sleeps POST_LAUNCH_DELAY.
CrashBelowLimitRelaunches ==
    [][(CrashTick /\ Len(crash_times') < CRASH_LIMIT)
          => /\ iter'.spawned # 0
             /\ iter'.slept = <<POST_LAUNCH_DELAY, CHECK_INTERVAL>>]_vars

\* C10 amended: an iteration that records a crash and stays below the limit
\* sleeps POST_LAUNCH_DELAY; it launches a Runner when <main>/src/autofram/
\* runner.py exists, and otherwise logs the error and launches nothing.
CrashBelowLimitRelaunchesIfScript ==
    [][(CrashTick /\ Len(crash_times') < CRASH_LIMIT)
          => /\ iter'.slept = <<POST_LAUNCH_DELAY, CHECK_INTERVAL>>
             /\ iter'.input.script =>
                   /\ iter'.spawned # 0
                   /\ Contains(iter'.log, "Runner launched.")
             /\ ~iter'.input.script =>
                   /\ iter'.spawned = 0
                   /\ Contains(iter'.log, "ERROR: Runner not found")]_vars

\* C10 happens: an unhealthy Runner was terminated and a new one launched in
\* the same iteration.
UnhealthyRunnerRelaunched ==
    /\ ticks > 0 /\ iter.crashes = 1 /\ iter.found # 0
    /\ Len(crash_times) < CRASH_LIMIT /\ iter.spawned # 0

\* The command line of the Runner of main's working copy.
MainRunnerCmdline == <<<<"python">>, runner_path_of(main_dir)>>

\* C11: every Runner process the Watcher launches runs main's runner script
\* with main's working copy as working directory, whatever branch the missing
\* or unhealthy Runner had been running from.
WatcherLaunchesFromMain ==
    [][(ticks' = ticks + 1 /\ iter'.spawned # 0)
          => /\ procs'[iter'.spawned].image = "runner"
             /\ procs'[iter'.spawned].cwd = "main"
             /\ procs'[iter'.spawned].cmdline = MainRunnerCmdline]_vars

\* C11 happens: a Runner had started in feat's working copy (it truncated
\* feat's errors.log) and is gone, and the last iteration, finding no Runner,
\* launched one that now runs from main.
LaunchedAfterFeatRunner ==
    /\ ticks > 0 /\ iter.found = 0 /\ iter.spawned # 0
    /\ errors_log["feat"] = 0
    /\ \A q \in Pids : procs[q].image # "none" => procs[q].cwd = "main"
    /\ procs[iter.spawned].image = "runner" /\ procs[iter.spawned].pc = "start"

\* Process p enters run_single_iteration and leaves its comparison of hashes.
CycleBegins(p) ==
    /\ procs[p].image = "runner" /\ procs[p].pc = "cycle"
    /\ procs'[p].pc \in {"sleep", "chat", "tools"}

\* The hash of COMMS.md of p's working copy once the pull of the step is done.
HashAfterPull(p) == hash_comms(comms'[procs[p].cwd])

\* C12: a cycle in which the hash of COMMS.md after the pull equals a present
\* last_comms_hash issues no chat-completion request, dispatches no tool and
\* leaves last_comms_hash unchanged.
UnchangedCommsSkipsCycle ==
    [][\A p \in Pids :
         (/\ CycleBegins(p)
          /\ procs[p].last_comms_hash # NoHash
          /\ HashAfterPull(p) = procs[p].last_comms_hash)
         => /\ procs'[p].pc = "sleep"
            /\ procs'[p].requests = 0 /\ procs'[p].messages = <<>>
            /\ procs'[p].calls = <<>>
            /\ procs'[p].last_comms_hash = procs[p].last_comms_hash]_vars

\* C12 happens: a Runner that recorded a hash sleeps after a cycle that saw
\* COMMS.md with that hash and issued no request.
CycleSkipped ==
    \E p \in Pids :
        /\ procs[p].image = "runner" /\ procs[p].pc = "sleep"
        /\ procs[p].requests = 0
        /\ procs[p].last_comms_hash # NoHash
        /\ procs[p].comms_hash = procs[p].last_comms_hash

\* C13: a cycle of a Runner whose last_comms_hash is absent is never skipped,
\* COMMS.md missing or not: it issues a chat-completion request; so two
\* consecutive cycles without COMMS.md both run.
AbsentHashNeverSkips ==
    [][\A p \in Pids :
         (CycleBegins(p) /\ procs[p].last_comms_hash = NoHash)
         => (procs'[p].pc = "chat" /\ procs'[p].requests = 1)]_vars

\* Process p is the same Runner before and after the step.
SameRunner(p) == procs[p].image = "runner" /\ procs'[p].image = "runner"

\* The cycle of process p comes to its natural end: a response without tool
\* calls has arrived and run_single_iteration returns.
NaturalEnd(p) == SameRunner(p) /\ procs[p].pc = "chat" /\ procs'[p].pc = "sleep"

\* C14: last_comms_hash of a Runner changes only in the step that ends a
\* cycle naturally, hence at most once per cycle and at its end; a skipped
\* cycle and a cycle that raised both leave it as it was.
HashChangesOnlyAtNaturalEnd ==
    [][\A p \in Pids :
         (SameRunner(p) /\ procs'[p].last_comms_hash # procs[p].last_comms_hash)
         => NaturalEnd(p)]_vars

\* C14 happens: a Runner that had recorded the hash of <<"task">> ran a later
\* cycle over another COMMS.md, the cycle raised, and the recorded hash is
\* still the earlier one.
ErroredCycleKeptHash ==
    \E p \in Pids :
        /\ procs[p].image = "runner" /\ procs[p].pc = "retry"
        /\ procs[p].last_comms_hash = hash_comms(OriginComms)
        /\ procs[p].comms_hash # procs[p].last_comms_hash

\* C15 as stated: at the natural end of a cycle last_comms_hash becomes the
\* hash the cycle computed right after its pull, whether or not tool calls
\* changed COMMS.md in between.
EndRecordsHashOfStepTwo ==
    [][\A p \in Pids :
         NaturalEnd(p) => procs'[p].last_comms_hash = procs[p].comms_hash]_vars

\* C15 amended: at the natural end of a cycle last_comms_hash becomes the
\* hash of COMMS.md as it is at that moment, which is the hash computed after
\* the pull only if the cycle's tool calls left the file as it was; and the
\* next cycle runs exactly if the hash of COMMS.md after its pull differs from
\* that recorded value.
EndRecordsHashOfThatMoment ==
    [][\A p \in Pids :
         /\ NaturalEnd(p)
            => procs'[p].last_comms_hash = hash_comms(comms[procs[p].cwd])
         /\ CycleBegins(p)
            => (procs'[p].pc = "chat" <=> HashAfterPull(p) # procs[p].last_comms_hash)]_vars

\* C15 happens: a cycle that began over <<"task">> wrote COMMS.md and ended;
\* the recorded hash is the one of the written file, not the one of the
\* cycle's beginning.
EndedAfterWritingComms ==
    \E p \in Pids :
        /\ procs[p].image = "runner" /\ procs[p].pc = "sleep"
        /\ procs[p].requests > 1
        /\ procs[p].comms_hash = hash_comms(OriginComms)
        /\ procs[p].last_comms_hash = hash_comms(<<"reply">>)

\* An exception is raised inside the cycle of process p: by the pull, the
\* prompt or a request, or by the tool sub-loop on malformed arguments.
ExceptionInCycle(p) == CycleRaises(p) \/ ToolArgsError(p)

Aligned(t) == t % 60 = 0 /\ ((t \div 60) % 60) % work_interval_minutes = 0

\* The run loop of process p leaves the handler of an errored cycle and calls
\* run_single_iteration for the next cycle.
RetryEnds(p) == SameRunner(p) /\ procs[p].pc = "retry" /\ procs'[p].pc = "cycle"

\* C17 as stated: after a cycle that ended in an error the next cycle starts
\* only at an aligned work_interval boundary.
ErroredCycleWaitsForBoundary ==
    [][\A p \in Pids : RetryEnds(p) => Aligned(now')]_vars

\* C17 amended: after a cycle that ended in an error the Runner does not
\* resume it; it sleeps RETRY_DELAY_SECONDS and then starts a new cycle from
\* the top (no conversation, no request counted, no call pending) at that
\* very instant, aligned or not.
ErroredCycleRestartsAfterDelay ==
    [][\A p \in Pids :
         (SameRunner(p) /\ procs[p].pc = "retry" /\ procs'[p] # procs[p])
         => /\ RetryEnds(p) /\ now' = now + RETRY_DELAY_SECONDS
            /\ procs'[p].messages = <<>> /\ procs'[p].requests = 0
            /\ procs'[p].calls = <<>>]_vars

\* C17 happens: a cycle is under way, off any boundary, that began when the
\* retry sleep of an errored cycle ended.
CycleOffBoundaryAfterError ==
    \E p \in Pids :
        /\ procs[p].image = "runner" /\ procs[p].pc \in {"chat", "tools"}
        /\ now > STARTUP_DELAY /\ ~Aligned(now)
        /\ (now - STARTUP_DELAY) % RETRY_DELAY_SECONDS = 0

\* C18: a Runner that starts with OPENROUTER_API_KEY unset exits with a
\* non-zero status; it never enters a cycle and issues no chat-completion
\* request.
NoApiKeyExits ==
    [][\A p \in Pids :
         /\ (/\ procs[p].image = "runner" /\ procs[p].pc = "start"
             /\ procs[p].api_key = NoKey /\ procs'[p] # procs[p])
            => /\ procs'[p].image = "none"
               /\ procs'[p].status \notin {"none", "0"}
               /\ procs'[p].requests = 0
         /\ (procs'[p].image = "runner" /\ procs'[p].api_key = NoKey)
            => (procs'[p].pc = "start" /\ procs'[p].requests = 0)]_vars

\* C18 happens: a Runner without API key has started and has exited with
\* status 1 after logging that the key is not set.
ExitedForMissingKey ==
    \E p \in Pids :
        /\ procs[p].image = "none" /\ procs[p].status = "1"
        /\ procs[p].said = "OPENROUTER_API_KEY not set"

\* C19: a SIGINT delivered to a Runner anywhere in its run loop - in a cycle,
\* in the sleep to the next boundary or in the retry sleep after an errored
\* cycle - makes it log "Shutdown requested." and exit with status 0.
SigintShutsDownGracefully ==
    [][\A p \in Pids :
         KeyboardInterrupt(p)
         => /\ procs'[p].image = "none"
            /\ procs'[p].said = "Shutdown requested."
            /\ procs'[p].status = "0"]_vars

\* The handler of the current call of process p raises: read_file on a
\* missing path or on a directory; the step is the Runner's answer to it.
HandlerRaises(p) ==
    /\ InCall(p, {"read_file"}) /\ CurrentCall(p).arg # BadJson
    /\ procs'[p].image = "runner" /\ procs'[p] # procs[p]

\* The tool result the step appended for the call that was current.
LastResult(p) == procs'[p].results[Len(procs'[p].results)]

\* C20: when a tool handler raises, the Runner appends a tool result for that
\* call whose content is "Error: <Kind>: <message>" (the ls hint for a
\* directory), takes up the next call of the response, and after the last
\* call issues the follow-up request: the cycle is not aborted.
ToolErrorIsNotFatal ==
    [][\A p \in Pids :
         /\ HandlerRaises(p)
            => /\ procs'[p].pc = "tools" /\ procs'[p].idx = procs[p].idx + 1
               /\ procs'[p].calls = procs[p].calls
               /\ Len(procs'[p].results) = Len(procs[p].results) + 1
               /\ LastResult(p).role = "tool"
               /\ LastResult(p).tool_call_id = procs[p].idx
               /\ LastResult(p).content =
                      IF CurrentCall(p).arg = "src"
                      THEN directory_hint("src")
                      ELSE <<"Error: ", "FileNotFoundError", ": ", "File not found">>
         /\ (/\ SameRunner(p) /\ procs[p].pc = "tools"
             /\ procs[p].idx > Len(procs[p].calls) /\ procs'[p] # procs[p])
            => /\ procs'[p].pc = "chat"
               /\ procs'[p].requests = procs[p].requests + 1
               /\ Len(procs'[p].messages)
                    = Len(procs[p].messages) + 1 + Len(procs[p].calls)]_vars

\* C20 happens: the follow-up request of a response with two calls has been
\* issued; the first call's handler raised and its result is the error text,
\* the second call was executed after it.
FollowUpAfterToolError ==
    \E p \in Pids :
        /\ procs[p].image = "runner" /\ procs[p].pc = "chat"
        /\ procs[p].requests = 2
        /\ \E i \in DOMAIN procs[p].messages :
             /\ i < Len(procs[p].messages)
             /\ procs[p].messages[i].role = "tool"
             /\ procs[p].messages[i].content
                  = <<"Error: ", "FileNotFoundError", ": ", "File not found">>
             /\ procs[p].messages[i + 1].role = "tool"
             /\ procs[p].messages[i + 1].content = <<"Successfully wrote">>

\* The content of a tool result answers the call it belongs to.
Answers(call, content) ==
    IF call.name = "write_file" THEN content = <<"Successfully wrote">>
    ELSE content # <<>> /\ content[1] = "Error: "

\* The results gathered so far for the response being dispatched by process
\* p are those of its first calls, in order, one per call.
ResultsInOrder(p) ==
    /\ Len(procs[p].results) = procs[p].idx - 1
    /\ \A i \in DOMAIN procs[p].results :
         /\ procs[p].results[i].role = "tool"
         /\ procs[p].results[i].tool_call_id = i
         /\ Answers(procs[p].calls[i], procs[p].results[i].content)

\* Every assistant message of the conversation of process p is followed by
\* the results of its calls, one per call and in their order.
BatchesInOrder(p) ==
    \A k \in DOMAIN procs[p].messages :
        procs[p].messages[k].role = "assistant"
        => LET calls == procs[p].messages[k].content
           IN  /\ k + Len(calls) <= Len(procs[p].messages)
               /\ \A i \in DOMAIN calls :
                    /\ procs[p].messages[k + i].role = "tool"
                    /\ procs[p].messages[k + i].tool_call_id = i
                    /\ Answers(calls[i], procs[p].messages[k + i].content)
               /\ k + Len(calls) < Len(procs[p].messages)
                    => procs[p].messages[k + Len(calls) + 1].role = "assistant"

\* The number of responses whose calls and results are in the conversation.
Batches(p) ==
    Cardinality({k \in DOMAIN procs[p].messages :
                    procs[p].messages[k].role = "assistant"})

\* C21: within a cycle the calls of a response are dispatched one at a time
\* in the order emitted; the conversation receives the assistant message and
\* then one tool result per call, with the call's id, in that order; and a
\* request is issued only with all of them appended (every request but the
\* first of the cycle follows one complete batch).
ToolCallsInOrder ==
    \A p \in Pids :
        (procs[p].image = "runner" /\ procs[p].pc \in {"chat", "tools"})
        => /\ procs[p].pc = "tools" => ResultsInOrder(p)
           /\ BatchesInOrder(p)
           /\ procs[p].requests = Batches(p) + 1

\* C21 happens: the follow-up request of a response with two calls is out,
\* and the conversation ends with that response and its two results.
TwoCallsAnswered ==
    \E p \in Pids :
        /\ procs[p].image = "runner" /\ procs[p].pc = "chat"
        /\ Len(procs[p].messages) >= 3
        /\ LET n == Len(procs[p].messages)
           IN  /\ procs[p].messages[n - 2].role = "assistant"
               /\ Len(procs[p].messages[n - 2].content) = 2
               /\ procs[p].messages[n - 2].content[1].name = "read_file"
               /\ procs[p].messages[n - 2].content[2].name = "write_file"
               /\ procs[p].messages[n].tool_call_id = 2

\* The current call of process p names no registered tool, and the step is
\* the Runner's dispatch of it.
UnknownToolDispatched(p) ==
    /\ procs[p].image = "runner" /\ procs[p].pc = "tools"
    /\ procs[p].idx <= Len(procs[p].calls)
    /\ CurrentCall(p).name \notin ToolRegistry /\ CurrentCall(p).arg # BadJson
    /\ procs'[p].image = "runner" /\ procs'[p] # procs[p]

\* C22: executing a name that is not in the tool registry fails with the
\* unknown-tool error and runs no handler: no file, working copy, marker or
\* process is touched, and the call's result is the error.
UnknownToolFails ==
    [][\A p \in Pids :
         UnknownToolDispatched(p)
         => /\ LastResult(p).content = <<"Error: ", "ValueError", ": ", "Unknown tool">>
            /\ procs'[p].idx = procs[p].idx + 1
            /\ procs'[p].effects = <<>> /\ procs'[p].stage = "call"
            /\ comms' = comms /\ dirs' = dirs /\ marker' = marker
            /\ errors_log' = errors_log /\ bootstrap_log' = bootstrap_log
            /\ \A q \in Pids \ {p} : procs'[q] = procs[q]]_vars

\* C22 happens: the conversation of a Runner holds the result of a call of
\* nonexistent_tool.
UnknownToolAnswered ==
    \E p \in Pids :
        /\ procs[p].image = "runner" /\ procs[p].pc = "chat"
        /\ \E k \in DOMAIN procs[p].messages :
             /\ procs[p].messages[k].role = "tool"
             /\ procs[p].messages[k].content
                  = <<"Error: ", "ValueError", ": ", "Unknown tool">>

\* A monitor_iteration takes place.
Tick == ticks' = ticks + 1

\* The iteration found a Runner and took its CPU sample; SampleTime is the
\* clock when the sample is in.
Sampled == Tick /\ iter'.found # 0 /\ ~iter'.input.gone
SampleTime == iter'.at + CPU_SAMPLE_INTERVAL
HighSample == iter'.input.cpu >= CPU_THRESHOLD

\* C23: the Watcher reports CPU runaway at a sample iff the sample is at or
\* above CPU_THRESHOLD while high_cpu_start is set and at least CPU_DURATION
\* old; high_cpu_start is set only by a sample at or above the threshold
\* taken while it is clear, and every sample below the threshold clears it.
\* So load for less than CPU_DURATION is healthy and for exactly
\* CPU_DURATION unhealthy.
CpuRunawayIffSustained ==
    [][/\ Tick => ((iter'.error = "CPU runaway detected")
                     <=> (/\ Sampled /\ HighSample
                          /\ high_cpu_start # None
                          /\ SampleTime - high_cpu_start >= CPU_DURATION))
       /\ (Sampled /\ ~HighSample) => high_cpu_start' = None
       /\ (Sampled /\ HighSample /\ high_cpu_start = None /\ iter'.error = "None")
            => high_cpu_start' = SampleTime
       /\ (Sampled /\ HighSample /\ high_cpu_start # None /\ iter'.error = "None")
            => (/\ high_cpu_start' = high_cpu_start
                /\ SampleTime - high_cpu_start < CPU_DURATION)
       /\ high_cpu_start' \notin {None, high_cpu_start}
            => (Sampled /\ HighSample /\ high_cpu_start = None)]_vars

\* C23 happens: the last iteration reported CPU runaway at a sample taken
\* exactly CPU_DURATION after the sample of the eleventh iteration before it
\* (iterations over a healthy Runner are CHECK_INTERVAL + CPU_SAMPLE_INTERVAL
\* apart), the earliest a runaway can be reported.
RunawayAtExactlyDuration ==
    /\ ticks > 0 /\ iter.error = "CPU runaway detected"
    /\ iter.at = STARTUP_DELAY + CPU_DURATION

\* The CPU check of the iteration reported runaway.
RunawayReported == iter'.error = "CPU runaway detected"

\* C24: an iteration reports log explosion iff, the Runner found and its CPU
\* check passed, <main>/logs/errors.log exists with a size strictly greater
\* than LOG_SIZE_LIMIT: a missing file and a file of exactly LOG_SIZE_LIMIT
\* are healthy, one of LOG_SIZE_LIMIT + 1 is not.
LogExplosionIffOverLimit ==
    [][Tick =>
         LET log_size == errors_log["main"]
         IN  /\ (iter'.error = "Log explosion detected")
                  <=> (/\ Sampled /\ ~RunawayReported
                       /\ log_size # None /\ log_size > LOG_SIZE_LIMIT)
             /\ (Sampled /\ ~RunawayReported /\ log_size = LOG_SIZE_LIMIT + 1)
                  => iter'.error = "Log explosion detected"
             /\ (Sampled /\ ~RunawayReported /\ log_size \in {None, LOG_SIZE_LIMIT})
                  => iter'.error = "None"]_vars

\* C24 happens: an iteration met a log of LOG_SIZE_LIMIT + 1 and reported it.
LogExplosionReported ==
    /\ ticks > 0 /\ iter.error = "Log explosion detected"
    /\ errors_log["main"] = LOG_SIZE_LIMIT + 1

\* A batch of execute_contracts takes place.
BatchRuns == contracts'.batch.n = contracts.batch.n + 1

\* The batch moved the contract file from contracts/ to contracts_completed/.
Moved(name) ==
    /\ contracts.files[name] # NoContract
    /\ contracts'.files[name] = NoContract
    /\ contracts'.completed[name] # NoContract

\* The sub-agent of the contract ran in the batch and raised (returned).
AgentRaised(name) ==
    \E i \in DOMAIN contracts'.batch.ran :
        contracts'.batch.ran[i] = [name |-> name, raised |-> TRUE]
AgentReturned(name) ==
    \E i \in DOMAIN contracts'.batch.ran :
        contracts'.batch.ran[i] = [name |-> name, raised |-> FALSE]

RunnerLogIsMainLog ==
    [][\A b \in Branches \ {"main"} : errors_log'[b] = errors_log[b]]_vars

\* The iteration found a Runner and went on to signal it or to record a crash.
ActedOnFoundRunner ==
    Tick /\ iter'.found # 0 /\ (iter'.signals # <<>> \/ iter'.crashes > 0)

\* C27 as stated: the Watcher signals a found Runner, or records a crash for
\* it, only at a tick where CPU runaway or log explosion holds.
TerminatesOnlyOnRunawayOrExplosion ==
    [][ActedOnFoundRunner
         => iter'.error \in {"CPU runaway detected", "Log explosion detected"}]_vars

\* C27 amended: a third observation counts as unhealthy, the found process
\* having vanished by the time its CPU is sampled.  A signal is sent only
\* under CPU runaway or log explosion; a crash is recorded for a found Runner
\* only under one of the three; and the vanished process is reported exactly
\* when the sample could not be taken.
TerminatesOnlyOnThreeConditions ==
    [][/\ ActedOnFoundRunner
            => iter'.error \in {"CPU runaway detected", "Log explosion detected",
                                "Process no longer accessible"}
       /\ (Tick /\ iter'.found # 0 /\ iter'.signals # <<>>)
            => iter'.error \in {"CPU runaway detected", "Log explosion detected"}
       /\ (Tick /\ iter'.found # 0)
            => ((iter'.error = "Process no longer accessible") <=> iter'.input.gone)
       /\ (Tick /\ iter'.found # 0 /\ iter'.error = "None")
            => (/\ iter'.signals = <<>> /\ iter'.crashes = 0
                /\ procs'[iter'.found] = procs[iter'.found])]_vars

\* C27 happens: the found Runner vanished during the check; no signal was
\* sent and a crash was recorded.
CrashRecordedForVanishedRunner ==
    /\ ticks > 0 /\ iter.found # 0
    /\ iter.error = "Process no longer accessible"
    /\ iter.signals = <<>> /\ iter.crashes = 1

\* The iteration found a Runner that is there and unhealthy.
UnhealthyRunner ==
    Tick /\ iter'.found # 0
         /\ iter'.error \in {"CPU runaway detected", "Log explosion detected"}

Last(s) == s[Len(s)]

\* C28: for an unhealthy Runner the Watcher sends SIGTERM first; SIGKILL
\* follows exactly when the Runner has not exited within TERMINATE_WAIT; and
\* crash-and-restart comes after the termination attempt: the one crash of
\* the iteration is recorded at the time the attempt is over (after the full
\* wait when SIGKILL was needed), and then a Runner is launched or the alert
\* is raised, never both.
TerminatesBeforeRestart ==
    [][UnhealthyRunner =>
         /\ iter'.signals \in {<<"SIGTERM">>, <<"SIGTERM", "SIGKILL">>}
         /\ (iter'.signals = <<"SIGTERM", "SIGKILL">>) <=> ~iter'.input.exits
         /\ iter'.crashes = 1
         /\ crash_times' # <<>>
         /\ Last(crash_times') = SampleTime + (IF iter'.input.exits THEN 0
                                                ELSE TERMINATE_WAIT)
         /\ (\E i \in DOMAIN iter'.log : iter'.log[i] = "ALERT")
              <=> ~(\E i \in DOMAIN iter'.log :
                      iter'.log[i] = "Launching runner from main...")
         /\ (\E i \in DOMAIN iter'.log : iter'.log[i] = "ALERT")
              <=> Len(crash_times') >= CRASH_LIMIT]_vars

\* C28 happens: a Runner under CPU runaway ignored SIGTERM, was killed after
\* the wait, and the crash was recorded after that.
KilledAfterWaitThenRestarted ==
    /\ ticks > 0 /\ iter.error = "CPU runaway detected"
    /\ iter.signals = <<"SIGTERM", "SIGKILL">>
    /\ iter.crashes = 1 /\ iter.spawned # 0
    /\ Last(crash_times) = iter.at + CPU_SAMPLE_INTERVAL + TERMINATE_WAIT

\* The iteration of the Watcher raised the crash-limit alert.
AlertRaised == \E i \in DOMAIN iter'.log : iter'.log[i] = "ALERT"

\* C30: an iteration of the Watcher changes the content of <main>/COMMS.md
\* only when it raises the crash-limit alert; a healthy tick, a termination
\* and launch_runner with its fetch and reset leave it as it was.
WatcherWritesCommsOnlyInAlert ==
    [][(Tick /\ comms'["main"] # comms["main"]) => AlertRaised]_vars

\* Process p, a Runner before and after, takes the step.
RunnerSteps(p) == SameRunner(p) /\ procs'[p] # procs[p]

\* C26: the tool-call sub-loop ends iff a response carries no tool calls.  A
\* response without tool calls ends the cycle at once; a response with tool
\* calls, the first of the cycle or a later one, has its calls dispatched;
\* and once the calls of a response are answered the next request is issued,
\* however many requests the cycle has made: nothing but a response without
\* tool calls takes the Runner out of the sub-loop.
SubLoopEndsIffNoToolCalls ==
    [][\A p \in Pids :
         /\ (RunnerSteps(p) /\ procs[p].pc = "chat")
              => \/ procs'[p].pc = "sleep" /\ procs'[p].calls = <<>>
                 \/ /\ procs'[p].pc = "tools" /\ procs'[p].calls # <<>>
                    /\ procs'[p].idx = 1
                    /\ procs'[p].requests = procs[p].requests
         /\ (RunnerSteps(p) /\ procs[p].pc = "tools")
              => \/ procs'[p].pc = "tools" /\ procs'[p].idx = procs[p].idx + 1
                 \/ /\ procs'[p].pc = "chat"
                    /\ procs[p].idx > Len(procs[p].calls)
                    /\ procs'[p].requests = procs[p].requests + 1
         /\ NaturalEnd(p) => procs'[p].calls = <<>>]_vars

\* C26 happens: a cycle ended after every response but its last carried a
\* tool call, the sub-loop having gone round more than once.
CycleEndedAfterNestedRounds ==
    \E p \in Pids :
        /\ procs[p].image = "runner" /\ procs[p].pc = "sleep"
        /\ procs[p].requests = MaxLoopRequests
        /\ Batches(p) = MaxLoopRequests - 1
        /\ Batches(p) > 1

\* Process p, a Runner on main, runs Runner.start.
StartsOnMain(p) ==
    /\ procs[p].image = "runner" /\ procs[p].pc = "start" /\ procs[p].cwd = "main"
    /\ procs'[p] # procs[p]

\* C31: a start of a Runner appends BOOTSTRAPPING and after it SUCCESS to
\* bootstrap.log, and SUCCESS only when the process has reached its main
\* loop: a Runner that exits during startup leaves BOOTSTRAPPING as the last
\* line of the log.
SuccessOnlyInSteadyState ==
    [][\A p \in Pids :
         StartsOnMain(p) =>
           /\ bootstrap_log' # NoFile
           /\ \E i \in DOMAIN bootstrap_log' : bootstrap_log'[i] = "BOOTSTRAPPING"
           /\ IF procs'[p].image = "runner" /\ procs'[p].pc = "cycle"
              THEN /\ Len(bootstrap_log') >= 2
                   /\ bootstrap_log'[Len(bootstrap_log')] = "SUCCESS"
                   /\ bootstrap_log'[Len(bootstrap_log') - 1] = "BOOTSTRAPPING"
              ELSE bootstrap_log'[Len(bootstrap_log')] = "BOOTSTRAPPING"]_vars

\* bootstrap.log exists, has a BOOTSTRAPPING line, and a SUCCESS line comes
\* after the last of them.
SuccessAfterLastBootstrapping(blog) ==
    /\ blog # NoFile
    /\ \E i \in DOMAIN blog :
         /\ blog[i] = "BOOTSTRAPPING"
         /\ \A j \in DOMAIN blog : j > i => blog[j] # "BOOTSTRAPPING"
         /\ \E k \in DOMAIN blog : k > i /\ blog[k] = "SUCCESS"

Logged(message) == \E i \in DOMAIN iter'.log : iter'.log[i] = message

\* C32: at a tick without Runner the Watcher reports a failed bootstrap iff
\* bootstrap.log is missing, has no BOOTSTRAPPING line, or has no SUCCESS
\* line after the last BOOTSTRAPPING line; and whatever the result, the tick
\* records one crash and launches a Runner unless the crash limit is reached.
BootstrapSuccessOnlyLogged ==
    [][Tick =>
         /\ Logged("Bootstrap failed, falling back to main")
              <=> (iter'.found = 0 /\ ~SuccessAfterLastBootstrapping(bootstrap_log))
         /\ iter'.found = 0 =>
              /\ iter'.crashes = 1
              /\ Logged("Launching runner from main...")
                   <=> Len(crash_times') < CRASH_LIMIT]_vars

\* C32 happens: the log holds a SUCCESS, but before the last BOOTSTRAPPING;
\* the Watcher reported the failed bootstrap and launched a Runner.
FailedBootstrapStillRestarted ==
    /\ ticks > 0 /\ iter.found = 0 /\ iter.crashes = 1 /\ iter.spawned # 0
    /\ bootstrap_log = <<"BOOTSTRAPPING", "SUCCESS", "BOOTSTRAPPING">>
    /\ \E i \in DOMAIN iter.log : iter.log[i] = "Bootstrap failed, falling back to main"

\* The iteration called launch_runner.
LaunchCalled == Tick /\ Logged("Launching runner from main...")

RunnerPids(table) == {p \in Pids : table[p].image = "runner"}

AlertFailed == Tick /\ Logged("ALERT") /\ ~iter'.input.write_ok

\* C34: a failure of the alert (the write of COMMS.md or a git step) is
\* logged and not fatal: the iteration goes on as after a delivered alert.
\* It launches no Runner, logs that restarts stop, waits
\* POST_CRASH_LIMIT_DELAY and then the poll interval, and keeps the crash it
\* recorded; COMMS.md is as it was.
FailedAlertIsNotFatal ==
    [][AlertFailed =>
         /\ Logged("Failed to alert PM")
         /\ Logged("Crash limit reached. Stopping restart attempts.")
         /\ ~Logged("Launching runner from main...")
         /\ iter'.spawned = 0
         /\ RunnerPids(procs') \subseteq RunnerPids(procs)
         /\ iter'.slept = <<POST_CRASH_LIMIT_DELAY, CHECK_INTERVAL>>
         /\ now' >= now + POST_CRASH_LIMIT_DELAY + CHECK_INTERVAL
         /\ iter'.crashes = 1 /\ Len(crash_times') >= CRASH_LIMIT
         /\ comms' = comms]_vars

\* C34 happens: the alert has failed at the limit and the Watcher polled
\* again: this is a later iteration, the window holding more crashes than
\* the limit, and no alert ever reached COMMS.md.
PolledOnAfterFailedAlert ==
    /\ ticks > CRASH_LIMIT /\ Len(crash_times) > CRASH_LIMIT
    /\ ~iter.input.write_ok
    /\ \E i \in DOMAIN iter.log : iter.log[i] = "Failed to alert PM"
    /\ comms["main"] = OriginComms

\* The iteration went through crash-and-restart: it found no Runner, or an
\* unhealthy one.
CrashAndRestart == Tick /\ (iter'.found = 0 \/ iter'.error # "None")

\* C35: crash records are created only inside crash-and-restart, one per
\* invocation: crash_times changes only in an iteration that found no Runner
\* or an unhealthy one, which appends the one time of that crash to the
\* records still inside the window; an iteration that finds a Runner with no
\* unhealthy condition leaves crash_times and every process as they were,
\* launches nothing and sends no signal.
OneCrashRecordPerRestart ==
    [][/\ crash_times' # crash_times => CrashAndRestart
       /\ CrashAndRestart =>
            /\ iter'.crashes = 1
            /\ crash_times' # <<>>
            /\ LET t == Last(crash_times')
               IN  /\ now <= t /\ t <= now'
                   /\ crash_times' =
                        Append(SelectSeq(crash_times,
                                         LAMBDA c : c > t - CRASH_WINDOW_SECONDS), t)
       /\ (Tick /\ ~CrashAndRestart) =>
            /\ iter'.crashes = 0
            /\ crash_times' = crash_times
            /\ iter'.spawned = 0 /\ iter'.signals = <<>>
            /\ procs' = procs]_vars

\* C35 happens: with a crash on record, an iteration found a healthy Runner
\* and left the record alone.
HealthyTickKeepsCrashRecord ==
    /\ ticks > 0 /\ iter.found # 0 /\ iter.error = "None"
    /\ iter.crashes = 0 /\ iter.spawned = 0 /\ iter.signals = <<>>
    /\ crash_times # <<>>

\* A Runner returns from sleep_until_next_interval.
Slept(p) ==
    /\ procs[p].image = "runner" /\ procs[p].pc = "sleep"
    /\ procs'[p].image = "runner" /\ procs'[p].pc = "cycle"

\* A boundary of the interval W: the minute of the hour is a multiple of W,
\* seconds zero.
Boundary(t, W) == t % 60 = 0 /\ ((t \div 60) % 60) % W = 0

\* C36: whatever the clock and the configured work interval W, the instant a
\* Runner sleeps until is the earliest boundary of W strictly after the
\* instant it fell asleep (a full period ahead from a boundary), the sleep is
\* neither negative nor longer than W minutes, and the sleep computed W
\* minutes after a boundary is the sleep computed at that boundary.
SleepsUntilEarliestBoundary ==
    [][\A p \in Pids : Slept(p) =>
          LET W == procs[p].work_interval_minutes
          IN  /\ now' > now
              /\ Boundary(now', W)
              /\ \A t \in (now + 1)..(now' - 1) : ~Boundary(t, W)
              /\ now' - now >= 0
              /\ now' - now <= W * 60
              /\ Boundary(now, W) =>
                     /\ now' - now = W * 60
                     /\ calculate_sleep_seconds(procs[p], now + W * 60)
                            = calculate_sleep_seconds(procs[p], now)]_vars

\* C37: whatever the crashes and unhealthy detections, the Watcher launches
\* at most CRASH_LIMIT - 1 Runners within a span shorter than
\* CRASH_WINDOW_SECONDS: a Runner is started by a call of launch_runner only,
\* and of CRASH_LIMIT calls in a row the last is at least
\* CRASH_WINDOW_SECONDS after the first.
LaunchesWithinBudget ==
    /\ Len(iter.launches) <= CRASH_LIMIT
    /\ iter.spawned # 0 => iter.launches # <<>> /\ Last(iter.launches) >= iter.at
    /\ Len(iter.launches) = CRASH_LIMIT =>
           Last(iter.launches) - Head(iter.launches) >= CRASH_WINDOW_SECONDS

\* The Watcher has launched a Runner CRASH_LIMIT times, the last one after
\* the window of the first has passed.
FifthLaunchAfterWindow ==
    /\ Len(iter.launches) = CRASH_LIMIT
    /\ iter.spawned # 0
    /\ Last(iter.launches) = Last(crash_times)

\* The last iteration found no Runner and the crash it recorded reached the
\* limit: the Watcher paused instead of launching.
PausedWithoutRunner ==
    /\ ticks > 0 /\ iter.found = 0 /\ iter.crashes = 1
    /\ Len(crash_times) >= CRASH_LIMIT

\* C38: reaching the crash limit only pauses the restarts of a Runner that
\* stays absent: the crashes recorded by the ticks that follow the pauses do
\* not hold the window at CRASH_LIMIT by themselves, so that a pause is taken
\* only while a crash that led to a launch is still in the window, and the
\* Watcher launches again once those have left it.
PausesAloneDoNotHoldTheLimit ==
    PausedWithoutRunner =>
        /\ iter.launches # <<>>
        /\ Last(iter.launches) > iter.at - CRASH_WINDOW_SECONDS

\* A Runner takes up a tool call whose argument string is not JSON.
MalformedCallTaken(p) ==
    /\ procs[p].image = "runner" /\ procs[p].pc = "tools"
    /\ procs[p].idx <= Len(procs[p].calls)
    /\ CurrentCall(p).arg = BadJson
    /\ procs'[p] # procs[p] /\ procs'[p].image = "runner"

\* C39: a tool call whose argument string is not valid JSON aborts the cycle
\* and is not turned into a tool result: the exception reaches the handler of
\* the run loop, the conversation keeps no message of the response, no later
\* call is dispatched and no request follows, last_comms_hash stays as it was
\* (it is not the hash that started the cycle), what earlier calls of the
\* response did stays done, and the loop enters run_single_iteration again
\* RETRY_DELAY_SECONDS later.
MalformedArgumentsAbortCycle ==
    [][\A p \in Pids :
         /\ MalformedCallTaken(p) =>
               /\ procs'[p].pc = "retry"
               /\ procs'[p].said = "LLM loop error: JSONDecodeError"
               /\ procs'[p].messages = <<>> /\ procs'[p].results = <<>>
               /\ procs'[p].calls = <<>> /\ procs'[p].requests = 0
               /\ procs'[p].last_comms_hash = procs[p].last_comms_hash
               /\ procs'[p].last_comms_hash # procs'[p].comms_hash
               /\ comms' = comms /\ now' = now
         /\ (SameRunner(p) /\ procs'[p] # procs[p] /\ procs[p].pc = "retry"
               /\ procs[p].said = "LLM loop error: JSONDecodeError") =>
               /\ procs'[p].pc = "cycle"
               /\ now' = now + RETRY_DELAY_SECONDS
               /\ procs'[p].last_comms_hash = procs[p].last_comms_hash
               /\ comms' = comms]_vars

\* A response wrote COMMS.md and then carried a call with malformed
\* arguments: the Runner waits in the handler of the run loop, the write done
\* and last_comms_hash not that of COMMS.md.
AbortedAfterEarlierCall ==
    \E p \in Pids :
        /\ procs[p].image = "runner" /\ procs[p].pc = "retry"
        /\ procs[p].said = "LLM loop error: JSONDecodeError"
        /\ comms[procs[p].cwd] = <<"reply">>
        /\ procs[p].last_comms_hash # hash_comms(comms[procs[p].cwd])

\* The working copy the upgrade call of process p is about.
UpgradeTarget(p) ==
    IF CurrentCall(p).name = "bootstrap" THEN CurrentCall(p).arg ELSE "main"

\* Process p, in bootstrap or rollback, passes clone_or_update_branch and is
\* still there.
CloneAttempted(p) ==
    /\ procs[p].image = "runner" /\ procs[p].pc = "tools" /\ procs[p].stage = "clone"
    /\ procs'[p] # procs[p] /\ procs'[p].image # "none"

\* C40: when the clone or update step of bootstrap(branch) or rollback()
\* fails, the process is not replaced: the call returns the failure as its
\* tool result, the Runner goes on with its cycle in the working copy it runs
\* from, and the marker touched at the start of the call stays as touched.
\* A call that leaves no working copy of its target never reaches the exec.
FailedCloneKeepsRunner ==
    [][\A p \in Pids :
         /\ (CloneAttempted(p) /\ UpgradeTarget(p) \notin dirs') =>
               procs'[p].stage # "exec"
         /\ (CloneAttempted(p) /\ procs'[p].stage # "exec") =>
               /\ procs'[p].image = "runner"
               /\ procs'[p].cmdline = procs[p].cmdline
               /\ procs'[p].cwd = procs[p].cwd
               /\ procs'[p].pc = "tools"
               /\ procs'[p].idx = procs[p].idx + 1
               /\ procs'[p].results =
                     Append(procs[p].results,
                            tool_result(procs[p], error_content("CalledProcessError", "git")))
               /\ procs'[p].messages = procs[p].messages
               /\ marker' = marker /\ marker # None /\ marker <= now
               /\ dirs' = dirs /\ comms' = comms]_vars

\* A bootstrap to a branch without working copy has failed to clone it: the
\* Runner holds the error as the result of the call, the marker is in place
\* and the copy is not there.
CloneFailureReturned ==
    \E p \in Pids :
        /\ procs[p].image = "runner" /\ procs[p].pc = "tools"
        /\ procs[p].results # <<>>
        /\ Last(procs[p].results).content = error_content("CalledProcessError", "git")
        /\ marker # None
        /\ "feat" \notin dirs

====
